---- MODULE Spec2Model ----
(***************************************************************************)
(* ARIA snapshot engine of injected/ariaSnapshot.ts: the template matcher  *)
(* (matchesNode, listEqual, containsList, matchesNodeDeep), the public     *)
(* entry points matchesAriaTree and getAllByAria, the best-candidate       *)
(* scorer, the renderer and the ref assignment of the tree builder.        *)
(*                                                                         *)
(* Encoding of JavaScript values:                                          *)
(*   - a string is a tuple of one-character strings, '' is << >>;          *)
(*   - a child of an AriaNode is a record with kind "node" or "string"     *)
(*     (typeof child === 'string' is child.kind = "string");               *)
(*   - a state attribute is "true", "false", "mixed", a level "1", "2" or  *)
(*     undefined;                                                         *)
(*   - a template text (AriaRegex | string | undefined) is a record with   *)
(*     kind "undefined", "string" or "regex".                              *)
(***************************************************************************)
EXTENDS Integers, Sequences, FiniteSets, TLC

VARIABLES
  dom,         \* the DOM: the root element handed to the entry points
  template,    \* the AriaTemplateNode handed to the matcher
  pc,          \* the operation that produced the current results
  target,      \* the node or texts the last call of a matcher function was applied to
  verdict,     \* results of the last call of a matcher function
  matches,     \* matchesAriaTree(...).matches
  received,    \* matchesAriaTree(...).received
  elements,    \* getAllByAria(...) result
  snapshot,    \* root of the snapshot of the last generateAriaTree
  lastRef,     \* the module's counter of minted refs
  ariaRefs,    \* the _ariaRef expando of every element
  builds,      \* for each forAI build so far, the node built for every element
  cachesCounter, \* roleUtils: the beginAriaCaches calls not yet ended
  cacheCalls,  \* the begin/endAriaCaches calls of the last generateAriaTree, in order
  selectedPropertiesTab, \* Workbench: the 'propertiesTab' setting
  isInspecting,          \* Workbench: the isInspecting state
  highlightedElement,    \* Workbench: the highlightedElement state
  revealedAttachment,    \* Workbench: [attachment, revealCounter], or undefined
  revealSource           \* Workbench: the revealSource prop

builderVars == <<lastRef, ariaRefs, builds>>

cacheVars == <<cachesCounter, cacheCalls>>

workbenchVars ==
  <<selectedPropertiesTab, isInspecting, highlightedElement, revealedAttachment,
    revealSource>>

vars == <<dom, template, pc, target, verdict, matches, received, elements,
          snapshot, lastRef, ariaRefs, builds, cachesCounter, cacheCalls,
          selectedPropertiesTab, isInspecting, highlightedElement,
          revealedAttachment, revealSource>>

(***************************************************************************)
(* JavaScript values                                                       *)
(***************************************************************************)
undefined == "undefined"

\* node.props.url of a node without a url
NoText == <<"undefined">>

\* !text for text: string | undefined
Falsy(text) == text = NoText \/ text = << >>

TUndefined == [kind |-> "undefined"]
TString(s) == [kind |-> "string", value |-> s]
TRegex(p) == [kind |-> "regex", pattern |-> p]

\* !template for template: AriaRegex | string | undefined
FalsyTemplate(t) == t.kind = "undefined" \/ (t.kind = "string" /\ t.value = << >>)

Max(a, b) == IF a >= b THEN a ELSE b

null == [kind |-> "null"]

Digits == {"0", "1", "2", "3", "4", "5", "6", "7", "8", "9"}

(***************************************************************************)
(* new RegExp(pattern) and RegExp.exec.  A pattern is a tuple of atoms: a  *)
(* character class repeated min..max times, greedily (max 0: unbounded),   *)
(* or the assertion \b.  RegExpExec lists the ends of the matches that     *)
(* start at offset i in backtracking order: its head is what exec returns. *)
(***************************************************************************)
Class(chars, min, max) == [type |-> "class", chars |-> chars, min |-> min, max |-> max]
Lit(c) == Class({c}, 1, 1)
WordBoundary == [type |-> "b"]

Letters == {"a", "b", "c", "d", "e", "f", "g", "h", "i", "j", "k", "l", "m",
            "n", "o", "p", "q", "r", "s", "t", "u", "v", "w", "x", "y", "z",
            "A", "B", "C", "D", "E", "F", "G", "H", "I", "J", "K", "L", "M",
            "N", "O", "P", "Q", "R", "S", "T", "U", "V", "W", "X", "Y", "Z"}
WordChars == Letters \cup Digits \cup {"_"}

IsWordAt(text, i) == i >= 1 /\ i <= Len(text) /\ text[i] \in WordChars

RECURSIVE RegExpExec(_, _, _)
RECURSIVE RegExpRepeat(_, _, _, _)

\* the atom Head(pattern) taking k characters, k counting down to its minimum
RegExpRepeat(pattern, text, i, k) ==
  IF k < Head(pattern).min THEN << >>
  ELSE RegExpExec(Tail(pattern), text, i + k) \o RegExpRepeat(pattern, text, i, k - 1)

RegExpExec(pattern, text, i) ==
  IF pattern = << >> THEN <<i>>
  ELSE IF Head(pattern).type = "b"
    THEN IF IsWordAt(text, i) # IsWordAt(text, i + 1)
         THEN RegExpExec(Tail(pattern), text, i) ELSE << >>
    ELSE LET a == Head(pattern)
             limit == IF a.max = 0 THEN Len(text) - i
                      ELSE IF a.max < Len(text) - i THEN a.max ELSE Len(text) - i
             run == CHOOSE k \in 0..Max(limit, 0) :
                      /\ \A m \in 1..k : text[i + m] \in a.chars
                      /\ (k = Max(limit, 0) \/ text[i + k + 1] \notin a.chars)
         IN RegExpRepeat(pattern, text, i, run)

\* text.match(new RegExp(pattern)) is not null
StringMatch(text, pattern) ==
  \E i \in 0..Len(text) : RegExpExec(pattern, text, i) # << >>

(***************************************************************************)
(* matchesText, matchesTextNode, matchesName                               *)
(***************************************************************************)
\* matchesText with its first two tests in the other order
matchesTextTextFirst(text, t) ==
  IF Falsy(text) THEN FALSE
  ELSE IF FalsyTemplate(t) THEN TRUE
  ELSE IF t.kind = "string" THEN text = t.value
  ELSE StringMatch(text, t.pattern)

matchesText(text, t) ==
  IF FalsyTemplate(t) THEN TRUE
  ELSE IF Falsy(text) THEN FALSE
  ELSE IF t.kind = "string" THEN text = t.value
  ELSE StringMatch(text, t.pattern)

matchesTextNode(text, t) == matchesText(text, t.text)

matchesName(text, t) == matchesText(text, t.name)

(***************************************************************************)
(* AriaNode and AriaTemplateNode                                           *)
(***************************************************************************)
StringChild(s) == [kind |-> "string", text |-> s]

AriaNode(role, name, children) ==
  [kind |-> "node", role |-> role, name |-> name, children |-> children,
   props |-> [url |-> NoText], element |-> << >>, ref |-> undefined,
   box |-> [visible |-> TRUE, cursor |-> "auto"], receivesPointerEvents |-> TRUE,
   checked |-> undefined, disabled |-> undefined, expanded |-> undefined,
   level |-> undefined, pressed |-> undefined, selected |-> undefined]

TextTemplate(t) == [kind |-> "text", text |-> t]

RoleTemplate(role, name, mode, children) ==
  [kind |-> "role", role |-> role, name |-> name, containerMode |-> mode,
   children |-> children, props |-> [url |-> TUndefined],
   checked |-> undefined, disabled |-> undefined, expanded |-> undefined,
   level |-> undefined, pressed |-> undefined, selected |-> undefined]

fields == <<"checked", "disabled", "expanded", "level", "pressed", "selected">>

FIELD_MATCH_SCORE == 100

(***************************************************************************)
(* matchNodeFields: the loop over `fields`, from index i on                *)
(***************************************************************************)
RECURSIVE matchNodeFieldsFrom(_, _, _, _, _, _)
\* matchNodeFields where an attribute absent on the node matches any value
matchNodeFieldsFromLoose(node, t, fastFail, i, score, isMatch) ==
  IF i > Len(fields) THEN [isMatch |-> isMatch, score |-> score]
  ELSE IF t[fields[i]] # undefined /\ node[fields[i]] # undefined
    THEN IF node[fields[i]] # t[fields[i]]
      THEN IF fastFail THEN [isMatch |-> FALSE, score |-> score]
           ELSE matchNodeFieldsFrom(node, t, fastFail, i + 1, score, FALSE)
      ELSE matchNodeFieldsFrom(node, t, fastFail, i + 1,
                               score + FIELD_MATCH_SCORE, isMatch)
    ELSE matchNodeFieldsFrom(node, t, fastFail, i + 1, score, isMatch)

matchNodeFieldsFrom(node, t, fastFail, i, score, isMatch) ==
  IF i > Len(fields) THEN [isMatch |-> isMatch, score |-> score]
  ELSE IF t[fields[i]] # undefined
    THEN IF node[fields[i]] # t[fields[i]]
      THEN IF fastFail THEN [isMatch |-> FALSE, score |-> score]
           ELSE matchNodeFieldsFrom(node, t, fastFail, i + 1, score, FALSE)
      ELSE matchNodeFieldsFrom(node, t, fastFail, i + 1,
                               score + FIELD_MATCH_SCORE, isMatch)
    ELSE matchNodeFieldsFrom(node, t, fastFail, i + 1, score, isMatch)

matchNodeFields(node, t, fastFail) ==
  matchNodeFieldsFrom(node, t, fastFail, 1, 0, TRUE)

(***************************************************************************)
(* matchesNode, listEqual, containsList                                    *)
(***************************************************************************)
RECURSIVE matchesNode(_, _, _)
RECURSIVE listEqual(_, _, _)
RECURSIVE listEqualFrom(_, _, _, _)
RECURSIVE containsList(_, _)
RECURSIVE containsListLoop(_, _)
RECURSIVE containsListNext(_, _)
RECURSIVE containsListShift(_, _)

\* truthiness of c = cc.shift(): undefined and '' end the while loop
Truthy(c) == c.kind = "node" \/ c.text # << >>

\* matchesNode where 'deep-equal' does not reach below the children
matchesNodeShallow(node, t, isDeepEqual) ==
  IF node.kind = "string" /\ t.kind = "text" THEN matchesTextNode(node.text, t)
  ELSE IF node.kind # "node" \/ t.kind # "role" THEN FALSE
  ELSE IF t.role # "fragment" /\ t.role # node.role THEN FALSE
  ELSE IF ~matchNodeFields(node, t, TRUE).isMatch THEN FALSE
  ELSE IF ~matchesName(node.name, t) THEN FALSE
  ELSE IF ~matchesText(node.props.url, t.props.url) THEN FALSE
  ELSE IF t.containerMode = "contain"
    THEN containsList(node.children, t.children)
  ELSE IF t.containerMode = "equal"
    THEN listEqual(node.children, t.children, FALSE)
  ELSE IF t.containerMode = "deep-equal" \/ isDeepEqual
    THEN listEqual(node.children, t.children, FALSE)
  ELSE containsList(node.children, t.children)

\* matchesNode where an inherited deep-equal wins over the node's own mode
matchesNodeDeepFirst(node, t, isDeepEqual) ==
  IF node.kind = "string" /\ t.kind = "text" THEN matchesTextNode(node.text, t)
  ELSE IF node.kind # "node" \/ t.kind # "role" THEN FALSE
  ELSE IF t.role # "fragment" /\ t.role # node.role THEN FALSE
  ELSE IF ~matchNodeFields(node, t, TRUE).isMatch THEN FALSE
  ELSE IF ~matchesName(node.name, t) THEN FALSE
  ELSE IF ~matchesText(node.props.url, t.props.url) THEN FALSE
  ELSE IF t.containerMode = "deep-equal" \/ isDeepEqual
    THEN listEqual(node.children, t.children, TRUE)
  ELSE IF t.containerMode = "contain"
    THEN containsList(node.children, t.children)
  ELSE IF t.containerMode = "equal"
    THEN listEqual(node.children, t.children, FALSE)
  ELSE containsList(node.children, t.children)

matchesNode(node, t, isDeepEqual) ==
  IF node.kind = "string" /\ t.kind = "text" THEN matchesTextNode(node.text, t)
  ELSE IF node.kind # "node" \/ t.kind # "role" THEN FALSE
  ELSE IF t.role # "fragment" /\ t.role # node.role THEN FALSE
  ELSE IF ~matchNodeFields(node, t, TRUE).isMatch THEN FALSE
  ELSE IF ~matchesName(node.name, t) THEN FALSE
  ELSE IF ~matchesText(node.props.url, t.props.url) THEN FALSE
  ELSE IF t.containerMode = "contain"
    THEN containsList(node.children, t.children)
  ELSE IF t.containerMode = "equal"
    THEN listEqual(node.children, t.children, FALSE)
  ELSE IF t.containerMode = "deep-equal" \/ isDeepEqual
    THEN listEqual(node.children, t.children, TRUE)
  ELSE containsList(node.children, t.children)

listEqualFrom(children, t, isDeepEqual, i) ==
  IF i > Len(t) THEN TRUE
  ELSE IF ~matchesNode(children[i], t[i], isDeepEqual) THEN FALSE
  ELSE listEqualFrom(children, t, isDeepEqual, i + 1)

listEqual(children, t, isDeepEqual) ==
  IF Len(t) # Len(children) THEN FALSE
  ELSE listEqualFrom(children, t, isDeepEqual, 1)

\* let c = cc.shift(); while (c) { if (matchesNode(c, t, false)) break; c = cc.shift(); }
\* the result is whether c is truthy at the end, and what is left of cc
\* containsList's scan without the loop: only the next child is tried
containsListShiftOnce(cc, t) ==
  IF cc = << >> THEN [found |-> FALSE, cc |-> << >>]
  ELSE [found |-> Truthy(Head(cc)) /\ matchesNode(Head(cc), t, FALSE), cc |-> Tail(cc)]

containsListShift(cc, t) ==
  IF cc = << >> THEN [found |-> FALSE, cc |-> << >>]
  ELSE IF ~Truthy(Head(cc)) THEN [found |-> FALSE, cc |-> Tail(cc)]
  ELSE IF matchesNode(Head(cc), t, FALSE) THEN [found |-> TRUE, cc |-> Tail(cc)]
  ELSE containsListShift(Tail(cc), t)

\* for (const t of tt) ...
containsListLoop(cc, tt) ==
  IF tt = << >> THEN TRUE
  ELSE containsListNext(containsListShift(cc, Head(tt)), tt)

\* if (!c) return false; otherwise on to the next template child
containsListNext(r, tt) ==
  IF ~r.found THEN FALSE ELSE containsListLoop(r.cc, Tail(tt))

\* containsList with its length test off by one
containsListShorter(children, t) ==
  IF Len(t) >= Len(children) THEN FALSE
  ELSE containsListLoop(children, t)

containsList(children, t) ==
  IF Len(t) > Len(children) THEN FALSE
  ELSE containsListLoop(children, t)

(***************************************************************************)
(* Scorer.  longestCommonSubstring (stringUtils) is used through the       *)
(* length of its result only.                                              *)
(***************************************************************************)
STRING_SIMILARITY_MAX_SCORE == 400
ROLE_MATCH_SCORE == 500
ALL_FIELDS_MATCH_SCORE == 500
NO_CHILDREN_PENALTY == -50
INDEX_MATCH_BONUS_SCORE == 200
INDEX_MISMATCH_PENALTY == -50
DEPTH_BONUS_SCORE == 20
COUNT_MATCH_SCORE == 300
EXACT_MATCH_SCORE == 1000
NO_MATCH_SCORE == -200

IsSubstring(u, s) ==
  \E i \in 0..(Len(s) - Len(u)) : SubSeq(s, i + 1, i + Len(u)) = u

\* the longest substring of s1 that occurs in s2; of several, the one that
\* ends first in s1
longestCommonSubstring(s1, s2) ==
  LET common == { <<e, k>> \in (0..Len(s1)) \X (0..Len(s1)) :
                  k <= e /\ IsSubstring(SubSeq(s1, e - k + 1, e), s2) }
      best == CHOOSE c \in common :
                \A d \in common : d[2] < c[2] \/ (d[2] = c[2] /\ c[1] <= d[1])
  IN SubSeq(s1, best[1] - best[2] + 1, best[1])

\* Math.floor((commonLength / maxLength) * STRING_SIMILARITY_MAX_SCORE)
scoreStringSimilarity(actual, expected) ==
  IF Falsy(actual) \/ Falsy(expected) THEN 0
  ELSE IF Max(Len(actual), Len(expected)) > 0
    THEN (Len(longestCommonSubstring(actual, expected)) * STRING_SIMILARITY_MAX_SCORE)
         \div Max(Len(actual), Len(expected))
    ELSE NO_MATCH_SCORE

RECURSIVE scoreNodeMatch(_, _)
RECURSIVE findBestChildrenMatches(_, _, _)
RECURSIVE findBestChildrenMatchesLoop(_, _, _, _, _)
RECURSIVE findBestChildrenMatchesInner(_, _, _, _, _, _, _)

\* betterCandidate with >= for >: among equal scores the last index wins
betterCandidateLast(best, score, i) ==
  IF best.bestIndex = 0 \/ score >= best.bestScore
  THEN [bestScore |-> score, bestIndex |-> i] ELSE best

\* if (score > bestScore) { bestScore = score; bestIndex = i; }
\* bestIndex 0 is the source's -1 and stands for bestScore = -Infinity as well
betterCandidate(best, score, i) ==
  IF best.bestIndex = 0 \/ score > best.bestScore
  THEN [bestScore |-> score, bestIndex |-> i] ELSE best

\* for (let i = 0; i < children.length; i++): the best candidate for template
\* child j among the unused children; indexes are 1-based
findBestChildrenMatchesInner(children, tj, j, used, includePositionBonus, i, best) ==
  IF i > Len(children) THEN best
  ELSE IF i \in used
    THEN findBestChildrenMatchesInner(children, tj, j, used, includePositionBonus,
                                      i + 1, best)
    ELSE findBestChildrenMatchesInner(
           children, tj, j, used, includePositionBonus, i + 1,
           betterCandidate(best,
                           scoreNodeMatch(children[i], tj)
                           + (IF includePositionBonus /\ i = j
                              THEN INDEX_MATCH_BONUS_SCORE ELSE 0),
                           i))

\* the end of one round of the loop over the template children; st holds
\* usedChildrenIndexes, totalScore, matchedCount and matchIndexes
assignCandidate(st, best, includePositionBonus) ==
  IF best.bestIndex >= 1 /\ best.bestScore > 0
  THEN [usedChildrenIndexes |-> st.usedChildrenIndexes \cup {best.bestIndex},
        totalScore |-> st.totalScore + best.bestScore,
        matchedCount |-> st.matchedCount + 1,
        matchIndexes |-> Append(st.matchIndexes, best.bestIndex)]
  ELSE IF includePositionBonus
    THEN [st EXCEPT !.totalScore = st.totalScore - INDEX_MISMATCH_PENALTY]
    ELSE st

\* for (let j = 0; j < templateChildren.length; j++)
findBestChildrenMatchesLoop(children, templateChildren, includePositionBonus, j, st) ==
  IF j > Len(templateChildren) THEN st
  ELSE findBestChildrenMatchesLoop(
         children, templateChildren, includePositionBonus, j + 1,
         assignCandidate(
           st,
           findBestChildrenMatchesInner(
             children, templateChildren[j], j, st.usedChildrenIndexes,
             includePositionBonus, 1, [bestScore |-> 0, bestIndex |-> 0]),
           includePositionBonus))

findBestChildrenMatchesResult(templateChildren, includePositionBonus, st) ==
  [score |-> IF includePositionBonus /\ st.matchedCount = Len(templateChildren)
             THEN st.totalScore + COUNT_MATCH_SCORE ELSE st.totalScore,
   matchIndexes |-> st.matchIndexes]

findBestChildrenMatches(children, templateChildren, includePositionBonus) ==
  IF Len(templateChildren) = 0 THEN [score |-> 0, matchIndexes |-> << >>]
  ELSE IF Len(children) = 0
    THEN [score |-> Len(templateChildren) * NO_CHILDREN_PENALTY, matchIndexes |-> << >>]
    ELSE findBestChildrenMatchesResult(
           templateChildren, includePositionBonus,
           findBestChildrenMatchesLoop(
             children, templateChildren, includePositionBonus, 1,
             [usedChildrenIndexes |-> {}, totalScore |-> 0,
              matchedCount |-> 0, matchIndexes |-> << >>]))

scoreChildrenMatch(children, templateChildren) ==
  findBestChildrenMatches(children, templateChildren, TRUE).score

\* score += fieldsMatch.score + (fieldsMatch.isMatch ? ALL_FIELDS_MATCH_SCORE : 0)
scoreFields(fieldsMatch) ==
  fieldsMatch.score + (IF fieldsMatch.isMatch THEN ALL_FIELDS_MATCH_SCORE ELSE 0)

\* scoreNodeMatch returning 0 where the kinds of node and template differ
scoreNodeMatchKinds(node, t) ==
  IF node.kind = "string" /\ t.kind = "text"
  THEN IF matchesTextNode(node.text, t) THEN EXACT_MATCH_SCORE
       ELSE IF t.text.kind = "string" THEN scoreStringSimilarity(node.text, t.text.value)
       ELSE NO_MATCH_SCORE
  ELSE IF node.kind # "node" \/ t.kind # "role" THEN 0
  ELSE (IF node.role = t.role THEN ROLE_MATCH_SCORE ELSE 0)
       + (IF FalsyTemplate(t.name) THEN 0
          ELSE IF matchesName(node.name, t) THEN STRING_SIMILARITY_MAX_SCORE
          ELSE IF t.name.kind = "string"
            THEN scoreStringSimilarity(node.name, t.name.value)
            ELSE 0)
       + scoreFields(matchNodeFields(node, t, FALSE))
       + (IF matchesText(node.props.url, t.props.url) THEN FIELD_MATCH_SCORE ELSE 0)
       + scoreChildrenMatch(node.children, t.children)

scoreNodeMatch(node, t) ==
  IF node.kind = "string" /\ t.kind = "text"
  THEN IF matchesTextNode(node.text, t) THEN EXACT_MATCH_SCORE
       ELSE IF t.text.kind = "string" THEN scoreStringSimilarity(node.text, t.text.value)
       ELSE NO_MATCH_SCORE
  ELSE IF node.kind # "node" \/ t.kind # "role" THEN NO_MATCH_SCORE
  ELSE (IF node.role = t.role THEN ROLE_MATCH_SCORE ELSE 0)
       + (IF FalsyTemplate(t.name) THEN 0
          ELSE IF matchesName(node.name, t) THEN STRING_SIMILARITY_MAX_SCORE
          ELSE IF t.name.kind = "string"
            THEN scoreStringSimilarity(node.name, t.name.value)
            ELSE 0)
       + scoreFields(matchNodeFields(node, t, FALSE))
       + (IF matchesText(node.props.url, t.props.url) THEN FIELD_MATCH_SCORE ELSE 0)
       + scoreChildrenMatch(node.children, t.children)

\* result.matchIndexes.sort((a, b) => a - b)
RECURSIVE SortAscending(_)
SortAscending(s) ==
  IF s = << >> THEN << >>
  ELSE LET m == CHOOSE i \in 1..Len(s) : \A k \in 1..Len(s) : s[i] <= s[k]
       IN <<s[m]>> \o SortAscending([k \in 1..(Len(s) - 1) |->
                                      IF k < m THEN s[k] ELSE s[k + 1]])

\* matchIndexes.map(i => children[i])
ChildrenAt(children, indexes) == [k \in 1..Len(indexes) |-> children[indexes[k]]]

findBestSubsequence(children, templateChildren) ==
  IF Len(templateChildren) = 0 \/ Len(children) = 0 THEN << >>
  ELSE ChildrenAt(children,
                  SortAscending(findBestChildrenMatches(children, templateChildren,
                                                        FALSE).matchIndexes))

(***************************************************************************)
(* findBestStructuralMatch: traverse(node, depth) threads bestMatch and    *)
(* bestScore; bestMatch = null stands for bestScore = -Infinity            *)
(***************************************************************************)
RECURSIVE traverse(_, _, _, _)
RECURSIVE traverseChildren(_, _, _, _, _)

\* the update of bestMatch with bestScore starting at 0 instead of -Infinity
betterMatchFromZero(best, score, node) ==
  IF score > best.bestScore
  THEN [bestScore |-> score, bestMatch |-> node] ELSE best

\* if (score > bestScore) { bestScore = score; bestMatch = node; }
betterMatch(best, score, node) ==
  IF best.bestMatch.kind = "null" \/ score > best.bestScore
  THEN [bestScore |-> score, bestMatch |-> node] ELSE best

\* traverse comparing the base scores alone
traverseBaseScore(node, depth, t, best) ==
  traverseChildren(
    node.children, 1, depth, t,
    betterMatch(best,
                IF t.kind = "role" /\ t.role = "fragment" /\ Len(t.children) > 1
                THEN scoreChildrenMatch(node.children, t.children)
                ELSE scoreNodeMatch(node, t),
                node))

traverse(node, depth, t, best) ==
  traverseChildren(
    node.children, 1, depth, t,
    betterMatch(best,
                (IF t.kind = "role" /\ t.role = "fragment" /\ Len(t.children) > 1
                 THEN scoreChildrenMatch(node.children, t.children)
                 ELSE scoreNodeMatch(node, t))
                + (depth * DEPTH_BONUS_SCORE),
                node))

\* for (const child of node.children) if (typeof child !== 'string') traverse(child, depth + 1)
traverseChildren(children, i, depth, t, best) ==
  IF i > Len(children) THEN best
  ELSE IF children[i].kind = "string"
    THEN traverseChildren(children, i + 1, depth, t, best)
    ELSE traverseChildren(children, i + 1, depth, t,
                          traverse(children[i], depth + 1, t, best))

findBestStructuralMatch(node, t) ==
  traverse(node, 0, t, [bestScore |-> 0, bestMatch |-> null]).bestMatch

(***************************************************************************)
(* matchesNodeDeep: visit(node, parent) threads `results`; the returned    *)
(* record holds visit's boolean result and the results collected so far    *)
(***************************************************************************)
RECURSIVE matchesNodeDeepVisit(_, _, _, _, _, _)
RECURSIVE matchesNodeDeepChildren(_, _, _, _, _, _, _)
RECURSIVE matchesNodeDeepAfter(_, _, _, _, _, _, _)

\* if (result) results.push(result)
pushResult(results, result) ==
  IF result.kind # "null" THEN Append(results, result) ELSE results

\* visit whose return value is collectAll where the source returns !collectAll
matchesNodeDeepVisitOn(node, parent, t, collectAll, isDeepEqual, results) ==
  IF matchesNode(node, t, isDeepEqual)
  THEN [stop |-> collectAll,
        results |-> pushResult(results, IF node.kind = "string" THEN parent ELSE node)]
  ELSE IF node.kind = "string" THEN [stop |-> FALSE, results |-> results]
  ELSE matchesNodeDeepChildren(node.children, 1, node, t, collectAll,
                               isDeepEqual, results)

matchesNodeDeepVisit(node, parent, t, collectAll, isDeepEqual, results) ==
  IF matchesNode(node, t, isDeepEqual)
  THEN [stop |-> ~collectAll,
        results |-> pushResult(results, IF node.kind = "string" THEN parent ELSE node)]
  ELSE IF node.kind = "string" THEN [stop |-> FALSE, results |-> results]
  ELSE matchesNodeDeepChildren(node.children, 1, node, t, collectAll,
                               isDeepEqual, results)

\* for (const child of node.children || []) if (visit(child, node)) return true;
matchesNodeDeepChildren(children, i, node, t, collectAll, isDeepEqual, results) ==
  IF i > Len(children) THEN [stop |-> FALSE, results |-> results]
  ELSE matchesNodeDeepAfter(children, i, node, t, collectAll, isDeepEqual,
                            matchesNodeDeepVisit(children[i], node, t, collectAll,
                                                 isDeepEqual, results))

\* the loop over the children without its early return
matchesNodeDeepAfterAll(children, i, node, t, collectAll, isDeepEqual, r) ==
  matchesNodeDeepChildren(children, i + 1, node, t, collectAll,
                          isDeepEqual, r.results)

\* if (visit(child, node)) return true; otherwise on to the next child
matchesNodeDeepAfter(children, i, node, t, collectAll, isDeepEqual, r) ==
  IF r.stop THEN [stop |-> TRUE, results |-> r.results]
  ELSE matchesNodeDeepChildren(children, i + 1, node, t, collectAll,
                               isDeepEqual, r.results)

matchesNodeDeep(node, t, collectAll, isDeepEqual) ==
  matchesNodeDeepVisit(node, null, t, collectAll, isDeepEqual, << >>).results

(***************************************************************************)
(* Renderer.  A rendered string is a tuple of characters and of fixed      *)
(* pieces of syntax (the role, " [checked]", "- text: ", ...); lines are   *)
(* joined by "\n".                                                         *)
(***************************************************************************)
receivesPointerEvents(ariaNode) ==
  ariaNode.box.visible /\ ariaNode.receivesPointerEvents

hasPointerCursor(ariaNode) == ariaNode.box.cursor = "pointer"

RegExpSpecials == {".", "*", "+", "?", "^", "$", "{", "}", "(", ")", "|", "[", "]", "\\"}

RECURSIVE escapeRegExp(_)
escapeRegExp(str) ==
  IF str = << >> THEN << >>
  ELSE (IF Head(str) \in RegExpSpecials THEN <<"\\", Head(str)>> ELSE <<Head(str)>>)
       \o escapeRegExp(Tail(str))

\* String(new RegExp(pattern)): the source between slashes, '/' escaped
RECURSIVE RegExpSource(_)
RegExpSource(str) ==
  IF str = << >> THEN << >>
  ELSE IF Head(str) = "\\" /\ Len(str) >= 2
    THEN <<"\\", str[2]>> \o RegExpSource(Tail(Tail(str)))
  ELSE (IF Head(str) = "/" THEN <<"\\", "/">> ELSE <<Head(str)>>)
       \o RegExpSource(Tail(str))

RegExpToString(str) ==
  IF str = << >> THEN <<"/", "(", "?", ":", ")", "/">>
  ELSE <<"/">> \o RegExpSource(str) \o <<"/">>

DigitsCommaDot == Digits \cup {",", "."}

dynamicContent ==
  << [regex |-> <<WordBoundary, Class(DigitsCommaDot, 1, 0),
                  Class({"b", "k", "m", "B", "K", "M"}, 1, 0), WordBoundary>>,
      replacement |-> <<"[", "\\", "d", ",", ".", "]", "+",
                        "[", "b", "k", "m", "B", "K", "M", "]", "+">>],
     [regex |-> <<WordBoundary, Class(Digits, 1, 0),
                  Class({"h", "m", "s", "p"}, 1, 0), WordBoundary>>,
      replacement |-> <<"\\", "d", "+", "[", "h", "m", "s", "p", "]", "+">>],
     [regex |-> <<WordBoundary, Class(DigitsCommaDot, 1, 0),
                  Class({"h", "m", "s", "p"}, 1, 0), WordBoundary>>,
      replacement |-> <<"[", "\\", "d", ",", ".", "]", "+",
                        "[", "h", "m", "s", "p", "]", "+">>],
     [regex |-> <<WordBoundary, Class(Digits, 1, 0), Lit(","),
                  Class(Digits, 1, 0), WordBoundary>>,
      replacement |-> <<"\\", "d", "+", ",", "\\", "d", "+">>],
     [regex |-> <<WordBoundary, Class(Digits, 1, 0), Lit("."),
                  Class(Digits, 2, 0), WordBoundary>>,
      replacement |-> <<"\\", "d", "+", "\\", ".", "\\", "d", "+">>],
     [regex |-> <<WordBoundary, Class(Digits, 2, 0), Lit("."),
                  Class(Digits, 1, 0), WordBoundary>>,
      replacement |-> <<"\\", "d", "+", "\\", ".", "\\", "d", "+">>],
     [regex |-> <<WordBoundary, Class(Digits, 2, 0), WordBoundary>>,
      replacement |-> <<"\\", "d", "+">>] >>

\* combinedRegex at offset i: the first alternative that matches there
combinedRegexGroup(text, i, g) ==
  [group |-> g, end |-> Head(RegExpExec(dynamicContent[g].regex, text, i))]

combinedRegexFirst(text, i, alts) ==
  IF alts = {} THEN [group |-> 0, end |-> i]
  ELSE combinedRegexGroup(text, i, CHOOSE a \in alts : \A b \in alts : a <= b)

combinedRegexAt(text, i) ==
  combinedRegexFirst(text, i, { g \in 1..Len(dynamicContent) :
                                RegExpExec(dynamicContent[g].regex, text, i) # << >> })

\* text.replace(combinedRegex, callback): the matches from offset pos on,
\* threading the callback's pattern and lastIndex
RECURSIVE convertToBestGuessRegexLoop(_, _, _, _)
RECURSIVE convertToBestGuessRegexCallback(_, _, _, _, _)
RECURSIVE convertToBestGuessRegexNext(_, _, _, _)

\* the callback on the match m found at offset
convertToBestGuessRegexCallback(text, lastIndex, pattern, offset, m) ==
  convertToBestGuessRegexLoop(
    text, m.end, m.end,
    pattern \o escapeRegExp(SubSeq(text, lastIndex + 1, offset))
            \o dynamicContent[m.group].replacement)

convertToBestGuessRegexNext(text, lastIndex, pattern, starts) ==
  IF starts = {} THEN [pattern |-> pattern, lastIndex |-> lastIndex]
  ELSE convertToBestGuessRegexCallback(
         text, lastIndex, pattern,
         CHOOSE i \in starts : \A k \in starts : i <= k,
         combinedRegexAt(text, CHOOSE i \in starts : \A k \in starts : i <= k))

convertToBestGuessRegexLoop(text, pos, lastIndex, pattern) ==
  convertToBestGuessRegexNext(
    text, lastIndex, pattern,
    { i \in pos..Len(text) : combinedRegexAt(text, i).group # 0 })

convertToBestGuessRegexResult(text, r) ==
  IF r.pattern = << >> THEN text
  ELSE RegExpToString(r.pattern \o escapeRegExp(SubSeq(text, r.lastIndex + 1, Len(text))))

convertToBestGuessRegex(text) ==
  convertToBestGuessRegexResult(text, convertToBestGuessRegexLoop(text, 0, 0, << >>))

\* filtered.replace(substr, ''): the first occurrence removed
RemoveFirst(str, substr) ==
  LET at == CHOOSE i \in 0..(Len(str) - Len(substr)) :
              /\ SubSeq(str, i + 1, i + Len(substr)) = substr
              /\ \A k \in 0..(i - 1) : SubSeq(str, k + 1, k + Len(substr)) # substr
  IN SubSeq(str, 1, at) \o SubSeq(str, at + Len(substr) + 1, Len(str))

RECURSIVE RemoveAll(_, _)
RemoveAll(str, substr) ==
  IF substr # << >> /\ IsSubstring(substr, str)
  THEN RemoveAll(RemoveFirst(str, substr), substr) ELSE str

WhiteSpace == {" ", "\t", "\n", "\r"}

RECURSIVE TrimStart(_)
TrimStart(str) ==
  IF str # << >> /\ Head(str) \in WhiteSpace THEN TrimStart(Tail(str)) ELSE str

RECURSIVE TrimEnd(_)
TrimEnd(str) ==
  IF str # << >> /\ str[Len(str)] \in WhiteSpace
  THEN TrimEnd(SubSeq(str, 1, Len(str) - 1)) ELSE str

Trim(str) == TrimEnd(TrimStart(str))

LongestCommonSubstringLimit == 200

textContributesInfo(node, text) ==
  IF Len(text) = 0 THEN FALSE
  ELSE IF node.name = << >> THEN TRUE
  ELSE IF Len(node.name) > Len(text) THEN FALSE
  ELSE 10 * Len(Trim(RemoveAll(text,
                               IF Len(text) <= LongestCommonSubstringLimit
                                  /\ Len(node.name) <= LongestCommonSubstringLimit
                               THEN longestCommonSubstring(text, node.name)
                               ELSE << >>)))
       > Len(text)

includeText(mode, node, text) ==
  IF mode = "regex" THEN textContributesInfo(node, text) ELSE TRUE

renderString(mode, str) ==
  IF mode = "regex" THEN convertToBestGuessRegex(str) ELSE str

RECURSIVE JSONEscape(_)
JSONEscape(str) ==
  IF str = << >> THEN << >>
  ELSE (IF Head(str) \in {"\"", "\\"} THEN <<"\\", Head(str)>> ELSE <<Head(str)>>)
       \o JSONEscape(Tail(str))

JSONStringify(str) == <<"\"">> \o JSONEscape(str) \o <<"\"">>

\* ./yaml is outside the matcher: the key and the value are left as they are
yamlEscapeKeyIfNeeded(str) == str
yamlEscapeValueIfNeeded(str) == str

NameLimit == 900

renderName(name) ==
  IF name = << >> THEN << >>
  ELSE <<" ">> \o (IF Head(name) = "/" /\ name[Len(name)] = "/"
                   THEN name ELSE JSONStringify(name))

renderKey(ariaNode, mode, forAI) ==
  <<ariaNode.role>>
  \o renderName(IF ariaNode.name # << >> /\ Len(ariaNode.name) <= NameLimit
                THEN renderString(mode, ariaNode.name) ELSE << >>)
  \o (IF ariaNode.checked = "mixed" THEN <<" [checked=mixed]">> ELSE << >>)
  \o (IF ariaNode.checked = "true" THEN <<" [checked]">> ELSE << >>)
  \o (IF ariaNode.disabled = "true" THEN <<" [disabled]">> ELSE << >>)
  \o (IF ariaNode.expanded = "true" THEN <<" [expanded]">> ELSE << >>)
  \o (IF ariaNode.level \notin {undefined, "0"}
      THEN <<" [level=", ariaNode.level, "]">> ELSE << >>)
  \o (IF ariaNode.pressed = "mixed" THEN <<" [pressed=mixed]">> ELSE << >>)
  \o (IF ariaNode.pressed = "true" THEN <<" [pressed]">> ELSE << >>)
  \o (IF ariaNode.selected = "true" THEN <<" [selected]">> ELSE << >>)
  \o (IF forAI /\ receivesPointerEvents(ariaNode) /\ ariaNode.ref # undefined
      THEN <<" [ref=", ariaNode.ref, "]">>
           \o (IF hasPointerCursor(ariaNode) THEN <<" [cursor=pointer]">> ELSE << >>)
      ELSE << >>)

\* visit(ariaNode, parentAriaNode, indent): the lines it pushes
RECURSIVE renderVisit(_, _, _, _, _)
RECURSIVE renderNode(_, _, _, _, _)
RECURSIVE renderChildren(_, _, _, _, _, _)

\* lines.push(indent + '- text: ' + text) if (text)
renderTextLine(indent, text) ==
  IF text # << >> THEN << indent \o <<"- text: ">> \o text >> ELSE << >>

\* the single text child rendered inline, or the key alone
renderInline(escapedKey, text) ==
  IF text # << >> THEN << escapedKey \o <<": ">> \o yamlEscapeValueIfNeeded(text) >>
  ELSE <<escapedKey>>

\* renderNode testing only the children before it pushes the key alone
renderNodeKeyAlone(ariaNode, escapedKey, indent, mode, forAI) ==
  IF Len(ariaNode.children) = 0 THEN <<escapedKey>>
  ELSE IF Len(ariaNode.children) = 1 /\ ariaNode.children[1].kind = "string"
          /\ ariaNode.props.url = NoText
    THEN renderInline(escapedKey,
                      IF includeText(mode, ariaNode, ariaNode.children[1].text)
                      THEN renderString(mode, ariaNode.children[1].text) ELSE << >>)
    ELSE << escapedKey \o <<":">> >>
         \o renderChildren(ariaNode.children, 1, ariaNode, indent \o <<"  ">>,
                           mode, forAI)

\* the lines of an AriaNode, given its escaped key
renderNode(ariaNode, escapedKey, indent, mode, forAI) ==
  IF Len(ariaNode.children) = 0 /\ ariaNode.props.url = NoText THEN <<escapedKey>>
  ELSE IF Len(ariaNode.children) = 1 /\ ariaNode.children[1].kind = "string"
          /\ ariaNode.props.url = NoText
    THEN renderInline(escapedKey,
                      IF includeText(mode, ariaNode, ariaNode.children[1].text)
                      THEN renderString(mode, ariaNode.children[1].text) ELSE << >>)
    ELSE << escapedKey \o <<":">> >>
         \o (IF ariaNode.props.url # NoText
             THEN << indent \o <<"  - /", "url", ": ">>
                     \o yamlEscapeValueIfNeeded(ariaNode.props.url) >>
             ELSE << >>)
         \o renderChildren(ariaNode.children, 1, ariaNode, indent \o <<"  ">>,
                           mode, forAI)

renderVisit(ariaNode, parentAriaNode, indent, mode, forAI) ==
  IF ariaNode.kind = "string"
  THEN IF parentAriaNode.kind # "null" /\ ~includeText(mode, parentAriaNode, ariaNode.text)
       THEN << >>
       ELSE renderTextLine(indent, yamlEscapeValueIfNeeded(renderString(mode, ariaNode.text)))
  ELSE renderNode(ariaNode,
                  indent \o <<"- ">>
                  \o yamlEscapeKeyIfNeeded(renderKey(ariaNode, mode, forAI)),
                  indent, mode, forAI)

renderChildren(children, i, parentAriaNode, indent, mode, forAI) ==
  IF i > Len(children) THEN << >>
  ELSE renderVisit(children[i], parentAriaNode, indent, mode, forAI)
       \o renderChildren(children, i + 1, parentAriaNode, indent, mode, forAI)

\* lines.join('\n')
RECURSIVE JoinLines(_)
JoinLines(lines) ==
  IF lines = << >> THEN << >>
  ELSE IF Len(lines) = 1 THEN lines[1]
  ELSE lines[1] \o <<"\n">> \o JoinLines(Tail(lines))

renderAriaTree(ariaNode, mode, forAI) ==
  JoinLines(IF ariaNode.role = "fragment"
            THEN renderChildren(ariaNode.children, 1, ariaNode, << >>, mode, forAI)
            ELSE renderVisit(ariaNode, null, << >>, mode, forAI))

(***************************************************************************)
(* The DOM and generateAriaTree.  A DOM node is a text node or an element;  *)
(* an element carries what the DOM and roleUtils report for it: its id     *)
(* (its identity), role (getAriaRole, NoRole for null), name               *)
(* (getElementAccessibleName), hiddenForAria, box, receivesPointerEvents,  *)
(* block (a computed display other than inline), before and after (the     *)
(* CSS content of ::before and ::after), href (NoText without the          *)
(* attribute), ariaOwns (the ids of its aria-owns attribute), nodeName,    *)
(* the six state attributes and its child nodes.  The DOM of the model has *)
(* no input, textarea, slot or shadow root.  A build threads lastRef, the  *)
(* _ariaRef expando of every element, snapshot.elements, the visited set   *)
(* and the document that getElementById searches.                          *)
(***************************************************************************)
NoRole == "null"

TextNode(nodeValue) == [kind |-> "text", nodeValue |-> nodeValue]

Element(role, name, children) ==
  [kind |-> "element", id |-> << >>, role |-> role, name |-> name,
   hiddenForAria |-> FALSE, box |-> [visible |-> TRUE, cursor |-> "auto"],
   receivesPointerEvents |-> TRUE, block |-> FALSE,
   before |-> << >>, after |-> << >>, href |-> NoText,
   nodeName |-> "DIV", ariaOwns |-> << >>,
   checked |-> undefined, disabled |-> undefined, expanded |-> undefined,
   level |-> undefined, pressed |-> undefined, selected |-> undefined,
   children |-> children]

RECURSIVE ElementIds(_)
ElementIds(node) ==
  IF node.kind = "text" THEN {}
  ELSE {node.id} \cup UNION {ElementIds(node.children[i]) : i \in 1..Len(node.children)}

\* the element of the document with the id, which the document holds
RECURSIVE ElementById(_, _)
ElementById(node, id) ==
  IF node.id = id THEN node
  ELSE ElementById(
         node.children[CHOOSE i \in 1..Len(node.children) :
                         node.children[i].kind = "element"
                         /\ id \in ElementIds(node.children[i])],
         id)

\* the elements visit collects in ariaChildren: for each id of aria-owns the
\* element getElementById finds, if any
RECURSIVE ariaChildren(_, _, _)
ariaChildren(document, ids, i) ==
  IF i > Len(ids) THEN << >>
  ELSE (IF ids[i] \in ElementIds(document)
        THEN <<ElementById(document, ids[i])>> ELSE << >>)
       \o ariaChildren(document, ids, i + 1)

\* text.trim().replace(/\s+/g, ' ') of stringUtils
RECURSIVE CollapseWhiteSpace(_)
CollapseWhiteSpace(str) ==
  IF str = << >> THEN << >>
  ELSE IF Head(str) \in WhiteSpace
    THEN IF Len(str) > 1 /\ str[2] \in WhiteSpace
         THEN CollapseWhiteSpace(Tail(str))
         ELSE <<" ">> \o CollapseWhiteSpace(Tail(str))
    ELSE <<Head(str)>> \o CollapseWhiteSpace(Tail(str))

normalizeWhiteSpace(text) == CollapseWhiteSpace(Trim(text))

\* the ref minted for the n-th ariaRef: (options?.refPrefix ?? '') + 'e' + n
RefString(refPrefix, n) == refPrefix \o "e" \o ToString(n)

\* ariaRef always minting a fresh ref, whatever the element carries
ariaRefFresh(element, role, name, forAI, refPrefix, st) ==
  IF ~forAI THEN [ref |-> undefined, st |-> st]
  ELSE [ref |-> RefString(refPrefix, st.lastRef + 1),
        st |-> [st EXCEPT !.lastRef = st.lastRef + 1,
                          !.ariaRefs[element.id] =
                            [kind |-> "ref", role |-> role, name |-> name,
                             ref |-> RefString(refPrefix, st.lastRef + 1)]]]

\* ariaRef reading lastRef + 1 without storing it
ariaRefKeepCounter(element, role, name, forAI, refPrefix, st) ==
  IF ~forAI THEN [ref |-> undefined, st |-> st]
  ELSE IF \/ st.ariaRefs[element.id].kind = "null"
          \/ st.ariaRefs[element.id].role # role
          \/ st.ariaRefs[element.id].name # name
    THEN [ref |-> RefString(refPrefix, st.lastRef + 1),
          st |-> [st EXCEPT !.ariaRefs[element.id] =
                              [kind |-> "ref", role |-> role, name |-> name,
                               ref |-> RefString(refPrefix, st.lastRef + 1)]]]
    ELSE [ref |-> st.ariaRefs[element.id].ref, st |-> st]

\* ariaRef without its test of options.forAI
ariaRefAnyMode(element, role, name, forAI, refPrefix, st) ==
  IF \/ st.ariaRefs[element.id].kind = "null"
     \/ st.ariaRefs[element.id].role # role
     \/ st.ariaRefs[element.id].name # name
  THEN [ref |-> RefString(refPrefix, st.lastRef + 1),
        st |-> [st EXCEPT !.lastRef = st.lastRef + 1,
                          !.ariaRefs[element.id] =
                            [kind |-> "ref", role |-> role, name |-> name,
                             ref |-> RefString(refPrefix, st.lastRef + 1)]]]
  ELSE [ref |-> st.ariaRefs[element.id].ref, st |-> st]

\* the result is the ref and the state after the call
ariaRef(element, role, name, forAI, refPrefix, st) ==
  IF ~forAI THEN [ref |-> undefined, st |-> st]
  ELSE IF \/ st.ariaRefs[element.id].kind = "null"
          \/ st.ariaRefs[element.id].role # role
          \/ st.ariaRefs[element.id].name # name
    THEN [ref |-> RefString(refPrefix, st.lastRef + 1),
          st |-> [st EXCEPT !.lastRef = st.lastRef + 1,
                            !.ariaRefs[element.id] =
                              [kind |-> "ref", role |-> role, name |-> name,
                               ref |-> RefString(refPrefix, st.lastRef + 1)]]]
    ELSE [ref |-> st.ariaRefs[element.id].ref, st |-> st]

\* roleUtils.getAriaRole(element) ?? defaultRole
roleOf(element, forAI) ==
  IF element.role # NoRole THEN element.role
  ELSE IF forAI THEN "generic" ELSE NoRole

\* the AriaNode toAriaNode returns for the role, the name and ariaRef's result r
newAriaNode(element, role, name, r) ==
  [node |-> [AriaNode(role, name, << >>)
             EXCEPT !.element = element.id, !.ref = r.ref, !.box = element.box,
                    !.receivesPointerEvents = element.receivesPointerEvents,
                    !.checked = element.checked, !.disabled = element.disabled,
                    !.expanded = element.expanded, !.level = element.level,
                    !.pressed = element.pressed, !.selected = element.selected],
   st |-> r.st]

\* the AriaNode toAriaNode returns for an <iframe>, r being ariaRef's result
iframeAriaNode(element, r) ==
  [node |-> [AriaNode("iframe", << >>, << >>)
             EXCEPT !.element = element.id, !.ref = r.ref, !.box = element.box,
                    !.receivesPointerEvents = TRUE],
   st |-> r.st]

\* the result is the node, or null, and the state after the call
toAriaNode(element, forAI, refPrefix, st) ==
  IF element.nodeName = "IFRAME"
  THEN iframeAriaNode(element, ariaRef(element, "iframe", << >>, forAI, refPrefix, st))
  ELSE IF roleOf(element, forAI) \in {NoRole, "presentation", "none"}
  THEN [node |-> null, st |-> st]
  ELSE newAriaNode(element, roleOf(element, forAI), normalizeWhiteSpace(element.name),
                   ariaRef(element, roleOf(element, forAI),
                           normalizeWhiteSpace(element.name), forAI, refPrefix, st))

push(ariaNode, child) == [ariaNode EXCEPT !.children = Append(@, child)]

\* visit and processElement return the ariaNode they pushed to and the state
RECURSIVE visit(_, _, _, _, _)
RECURSIVE visitElement(_, _, _, _, _)
RECURSIVE processElement(_, _, _, _, _)
RECURSIVE visitChildNodes(_, _, _, _, _, _)

\* if (childAriaNode.ref) snapshot.elements.set(childAriaNode.ref, element)
setElement(r, element) ==
  IF r.node.ref # undefined
  THEN [r.st EXCEPT !.elements =
          {p \in r.st.elements : p.ref # r.node.ref}
          \cup {[ref |-> r.node.ref, element |-> element.id]}]
  ELSE r.st

\* ariaNode.children.push(childAriaNode), the child as processElement leaves it
pushProcessed(ariaNode, p) == [ariaNode |-> push(ariaNode, p.ariaNode), st |-> p.st]

\* the end of processElement keeping a url that is already set
finishElementKeepUrl(ariaNode, element) ==
  IF ariaNode.role = "link" /\ element.href # NoText /\ ariaNode.props.url = NoText
  THEN [ariaNode EXCEPT !.props = [url |-> element.href]]
  ELSE ariaNode

\* the end of processElement, after the ::after content is pushed
finishElement(ariaNode, element) ==
  IF ariaNode.role = "link" /\ element.href # NoText
  THEN [ariaNode EXCEPT !.props = [url |-> element.href]]
  ELSE ariaNode

clearOnlyChild(ariaNode) ==
  IF /\ Len(ariaNode.children) = 1
     /\ ariaNode.children[1].kind = "string"
     /\ ariaNode.children[1].text = ariaNode.name
  THEN [ariaNode EXCEPT !.children = << >>]
  ELSE ariaNode

pushBlock(ariaNode, element) ==
  IF element.block \/ element.nodeName = "BR" THEN push(ariaNode, StringChild(<<" ">>)) ELSE ariaNode

afterChildNodes(p, element) ==
  [ariaNode |-> finishElement(
                  clearOnlyChild(
                    pushBlock(push(p.ariaNode, StringChild(element.after)), element)),
                  element),
   st |-> p.st]

\* the child nodes visited without the test of visited
RECURSIVE visitChildNodesUnchecked(_, _, _, _, _, _)
continueUnchecked(p, children, i, forAI, refPrefix) ==
  visitChildNodesUnchecked(p.ariaNode, children, i + 1, forAI, refPrefix, p.st)

visitChildNodesUnchecked(ariaNode, children, i, forAI, refPrefix, st) ==
  IF i > Len(children) THEN [ariaNode |-> ariaNode, st |-> st]
  ELSE continueUnchecked(
         visit(ariaNode, children[i], forAI, refPrefix,
               IF children[i].kind = "element"
               THEN [st EXCEPT !.visited = @ \ {children[i].id}] ELSE st),
         children, i, forAI, refPrefix)

\* processElement where only the elements of aria-owns are tested for an
\* earlier visit
visitOwned(p, owned, forAI, refPrefix) ==
  visitChildNodes(p.ariaNode, owned, 1, forAI, refPrefix, p.st)

processElementOwnsChecked(ariaNode, element, forAI, refPrefix, st) ==
  afterChildNodes(
    visitOwned(
      visitChildNodesUnchecked(
        push(pushBlock(ariaNode, element), StringChild(element.before)),
        element.children, 1, forAI, refPrefix, st),
      ariaChildren(st.document, element.ariaOwns, 1), forAI, refPrefix),
    element)

processElement(ariaNode, element, forAI, refPrefix, st) ==
  afterChildNodes(
    visitChildNodes(push(pushBlock(ariaNode, element), StringChild(element.before)),
                    element.children \o ariaChildren(st.document, element.ariaOwns, 1),
                    1, forAI, refPrefix, st),
    element)

\* for (let child = element.firstChild; child; child = child.nextSibling)
continueChildNodes(p, children, i, forAI, refPrefix) ==
  visitChildNodes(p.ariaNode, children, i + 1, forAI, refPrefix, p.st)

visitChildNodes(ariaNode, children, i, forAI, refPrefix, st) ==
  IF i > Len(children) THEN [ariaNode |-> ariaNode, st |-> st]
  ELSE continueChildNodes(visit(ariaNode, children[i], forAI, refPrefix, st),
                          children, i, forAI, refPrefix)

\* the part of visit after toAriaNode returned r
visitElement(ariaNode, element, forAI, refPrefix, r) ==
  IF r.node.kind = "null"
  THEN processElement(ariaNode, element, forAI, refPrefix, r.st)
  ELSE pushProcessed(ariaNode,
                     processElement(r.node, element, forAI, refPrefix,
                                    setElement(r, element)))

\* isVisible of visit; isElementVisible is the visibility of the box
isVisible(element, forAI) ==
  IF forAI THEN ~element.hiddenForAria \/ element.box.visible
  ELSE ~element.hiddenForAria

visit(ariaNode, node, forAI, refPrefix, st) ==
  IF node.kind = "text"
  THEN [ariaNode |-> IF node.nodeValue # << >> /\ ariaNode.role # "textbox"
                     THEN push(ariaNode, StringChild(node.nodeValue))
                     ELSE ariaNode,
        st |-> st]
  ELSE IF node.id \in st.visited THEN [ariaNode |-> ariaNode, st |-> st]
  ELSE IF ~isVisible(node, forAI)
    THEN [ariaNode |-> ariaNode, st |-> [st EXCEPT !.visited = @ \cup {node.id}]]
  ELSE visitElement(ariaNode, node, forAI, refPrefix,
                    toAriaNode(node, forAI, refPrefix,
                               [st EXCEPT !.visited = @ \cup {node.id}]))

\* normalizeStringChildren: the loop over the children from index i on, with
\* the buffer of strings and the normalized children so far
flushChildren(buffer, normalizedChildren) ==
  IF buffer = << >> THEN normalizedChildren
  ELSE IF normalizeWhiteSpace(buffer) # << >>
    THEN Append(normalizedChildren, StringChild(normalizeWhiteSpace(buffer)))
    ELSE normalizedChildren

RECURSIVE normalizeStringChildren(_)
RECURSIVE normalizeStringChildrenLoop(_, _, _, _)

normalizeStringChildrenLoop(children, i, buffer, normalizedChildren) ==
  IF i > Len(children) THEN flushChildren(buffer, normalizedChildren)
  ELSE IF children[i].kind = "string"
    THEN normalizeStringChildrenLoop(children, i + 1, buffer \o children[i].text,
                                     normalizedChildren)
    ELSE normalizeStringChildrenLoop(
           children, i + 1, << >>,
           Append(flushChildren(buffer, normalizedChildren),
                  normalizeStringChildren(children[i])))

normalizeStringChildren(ariaNode) ==
  clearOnlyChild([ariaNode EXCEPT !.children =
                    normalizeStringChildrenLoop(ariaNode.children, 1, << >>, << >>)])

\* normalizeGenericRoles: normalizeChildren(node) is the list that replaces node
RECURSIVE normalizeChildren(_)
RECURSIVE normalizeChildrenLoop(_, _)

normalizeChildrenLoop(children, i) ==
  IF i > Len(children) THEN << >>
  ELSE IF children[i].kind = "string"
    THEN <<children[i]>> \o normalizeChildrenLoop(children, i + 1)
    ELSE normalizeChildren(children[i]) \o normalizeChildrenLoop(children, i + 1)

\* removeSelf for a generic that encloses nothing at all
removeSelfWhenEmpty(node, result) ==
  /\ node.role = "generic"
  /\ Len(result) = 0

removeSelf(node, result) ==
  /\ node.role = "generic"
  /\ Len(result) <= 1
  /\ \A k \in 1..Len(result) :
       result[k].kind # "string" /\ receivesPointerEvents(result[k])

normalizeChildrenResult(node, result) ==
  IF removeSelf(node, result) THEN result
  ELSE << [node EXCEPT !.children = result] >>

normalizeChildren(node) ==
  normalizeChildrenResult(node, normalizeChildrenLoop(node.children, 1))

normalizeGenericRoles(node) == normalizeChildren(node)[1]

\* the state of a page before any build: no element carries an _ariaRef
NoRefs(ids) ==
  [lastRef |-> 0, ariaRefs |-> [e \in ids |-> null], elements |-> {},
   visited |-> {}, document |-> null]

\* snapshot.root before the two normalizations, and the state after the visit
generateAriaTreeVisit(rootElement, forAI, refPrefix, st) ==
  visit([AriaNode("fragment", << >>, << >>)
         EXCEPT !.element = rootElement.id, !.box = rootElement.box],
        rootElement, forAI, refPrefix,
        [st EXCEPT !.elements = {}, !.visited = {}, !.document = rootElement])

generateAriaTreeNormalize(v) ==
  [root |-> normalizeGenericRoles(normalizeStringChildren(v.ariaNode)),
   elements |-> v.st.elements,
   st |-> v.st]

\* the snapshot (root and elements) and the state after the build
generateAriaTree(rootElement, forAI, refPrefix, st) ==
  generateAriaTreeNormalize(generateAriaTreeVisit(rootElement, forAI, refPrefix, st))

(***************************************************************************)
(* Public API of the matcher                                               *)
(***************************************************************************)
\* the root handed to the renderer for the diff: the best match, or for a
\* fragment template a fresh fragment around its best subsequence of children
\* diffRoot wrapping the best match only for a fragment of several children
diffRootWhenMany(bestMatch, t) ==
  IF t.kind = "role" /\ t.role = "fragment" /\ Len(t.children) > 1
  THEN [AriaNode("fragment", << >>, findBestSubsequence(bestMatch.children, t.children))
        EXCEPT !.element = bestMatch.element,
               !.box = bestMatch.box,
               !.receivesPointerEvents = bestMatch.receivesPointerEvents]
  ELSE bestMatch

diffRoot(bestMatch, t) ==
  IF t.kind = "role" /\ t.role = "fragment"
  THEN [AriaNode("fragment", << >>, findBestSubsequence(bestMatch.children, t.children))
        EXCEPT !.element = bestMatch.element,
               !.box = bestMatch.box,
               !.receivesPointerEvents = bestMatch.receivesPointerEvents]
  ELSE bestMatch

renderDiffTarget(bestMatch, t) ==
  IF bestMatch.kind # "null" THEN renderAriaTree(diffRoot(bestMatch, t), "raw", FALSE)
  ELSE NoText

matchesAriaTreeResult(snapshotRoot, t, found) ==
  [matches |-> found,
   received |-> [raw |-> renderAriaTree(snapshotRoot, "raw", FALSE),
                 regex |-> renderAriaTree(snapshotRoot, "regex", FALSE),
                 diffTarget |-> IF Len(found) = 0
                                THEN renderDiffTarget(
                                       findBestStructuralMatch(snapshotRoot, t), t)
                                ELSE NoText]]

\* the part of matchesAriaTree after generateAriaTree returned the snapshot
matchesAriaTreeOf(snapshotRoot, t) ==
  matchesAriaTreeResult(snapshotRoot, t, matchesNodeDeep(snapshotRoot, t, FALSE, FALSE))

matchesAriaTree(rootElement, t) ==
  matchesAriaTreeOf(generateAriaTree(rootElement, FALSE, "", NoRefs({})).root, t)

getAllElements(found) == [i \in 1..Len(found) |-> found[i].element]

getAllByAria(rootElement, t) ==
  getAllElements(
    matchesNodeDeep(generateAriaTree(rootElement, FALSE, "", NoRefs({})).root,
                    t, TRUE, FALSE))

(***************************************************************************)
(* Inputs of the matcher: a DOM under a root element without a role, and a *)
(* parsed template (a role node at the root).  The id of an element is its *)
(* path from the root element.  A size counts elements and text nodes.     *)
(***************************************************************************)
MaxNodeSize == 4
MaxTemplateSize == 3

SnapRoles == {"list"}
SnapTexts == {<<"a">>}
TemplateRoles == {"list"}
TemplateTexts == {TString(<<"a">>)}
ContainerModes == {undefined, "contain", "equal", "deep-equal"}

RECURSIVE NodesOfSize(_)
RECURSIVE NodeForests(_)

NodesOfSize(n) ==
  IF n = 1
  THEN {TextNode(s) : s \in SnapTexts}
       \cup {Element(r, << >>, << >>) : r \in SnapRoles}
  ELSE {Element(r, << >>, f) : r \in SnapRoles, f \in NodeForests(n - 1)}

\* no two text nodes are adjacent, as in a normalized DOM
NodeForests(n) ==
  IF n = 0 THEN {<< >>}
  ELSE UNION { UNION { { <<c>> \o f :
                         f \in { g \in NodeForests(n - k) :
                                 ~(c.kind = "text" /\ g # << >>
                                   /\ g[1].kind = "text") } } :
                       c \in NodesOfSize(k) } :
               k \in 1..n }

RECURSIVE TemplatesOfSize(_)
RECURSIVE TemplateForests(_)

TemplatesOfSize(n) ==
  IF n = 1
  THEN {TextTemplate(x) : x \in TemplateTexts}
       \cup {RoleTemplate(r, TUndefined, m, << >>) :
             r \in TemplateRoles, m \in ContainerModes}
  ELSE {RoleTemplate(r, TUndefined, m, f) :
        r \in TemplateRoles, m \in ContainerModes, f \in TemplateForests(n - 1)}

TemplateForests(n) ==
  IF n = 0 THEN {<< >>}
  ELSE UNION { { <<c>> \o f : c \in TemplatesOfSize(k), f \in TemplateForests(n - k) } :
               k \in 1..n }

\* the id of each element: its path from the root element
RECURSIVE AssignElements(_, _)
AssignElements(node, path) ==
  IF node.kind = "text" THEN node
  ELSE [node EXCEPT !.id = path,
                    !.children = [i \in 1..Len(node.children) |->
                                    AssignElements(node.children[i], Append(path, i))]]

Document(f) == AssignElements(Element(NoRole, << >>, f), << >>)

Documents ==
  { Document(f) : f \in UNION { NodeForests(n) : n \in 0..(MaxNodeSize - 1) } }

Templates ==
  { RoleTemplate(r, TUndefined, m, f) :
    r \in TemplateRoles \cup {"fragment"}, m \in ContainerModes,
    f \in UNION { TemplateForests(n) : n \in 0..(MaxTemplateSize - 1) } }

(***************************************************************************)
(* Inputs that exercise the state attributes: one checkbox under the root, *)
(* at most MaxFields attributes set on the element and on the template     *)
(***************************************************************************)
MaxFields == 2

FieldValues ==
  [checked |-> {"true", "false", "mixed"}, disabled |-> {"true", "false"},
   expanded |-> {"true", "false"}, level |-> {"1", "2"},
   pressed |-> {"true", "false", "mixed"}, selected |-> {"true", "false"}]

FieldNames == {fields[i] : i \in 1..Len(fields)}

FieldAssignments ==
  { a \in [FieldNames -> {undefined, "true", "false", "mixed", "1", "2"}] :
      /\ \A f \in FieldNames : a[f] = undefined \/ a[f] \in FieldValues[f]
      /\ Cardinality({f \in FieldNames : a[f] # undefined}) <= MaxFields }

WithFields(r, a) ==
  [r EXCEPT !.checked = a["checked"], !.disabled = a["disabled"],
            !.expanded = a["expanded"], !.level = a["level"],
            !.pressed = a["pressed"], !.selected = a["selected"]]

FieldDocuments ==
  { Document(<<WithFields(Element("checkbox", << >>, << >>), a)>>) :
    a \in FieldAssignments }

FieldTemplates ==
  { WithFields(RoleTemplate("checkbox", TUndefined, undefined, << >>), a) :
    a \in FieldAssignments }

(***************************************************************************)
(* Inputs that exercise names and urls: one link under the root            *)
(***************************************************************************)
Names == {<< >>, <<"a">>, <<"b", "1">>, <<"1", "2">>}
Urls == {NoText, << >>, <<"a">>, <<"b", "1">>}
TemplateStrings ==
  {TUndefined, TString(<< >>), TString(<<"a">>), TString(<<"1">>),
   TRegex(<<Lit("a")>>), TRegex(<<Class(Digits, 1, 0)>>),
   TRegex(<<Class({"a"}, 0, 0)>>)}

TextDocuments ==
  { Document(<<[Element("link", nu[1], << >>) EXCEPT !.href = nu[2]]>>) :
    nu \in (Names \X {NoText}) \cup ({<< >>} \X Urls) }

TextTemplates ==
  { [RoleTemplate("link", nu[1], undefined, << >>) EXCEPT !.props = [url |-> nu[2]]] :
    nu \in (TemplateStrings \X {TUndefined}) \cup ({TUndefined} \X TemplateStrings) }

(***************************************************************************)
(* Nodes and texts of a snapshot and of a template                         *)
(***************************************************************************)
\* the AriaNodes of a tree in pre-order (the order matchesNodeDeep visits)
RECURSIVE PreOrder(_)
RECURSIVE PreOrderChildren(_, _)
PreOrder(node) ==
  IF node.kind = "string" THEN << >>
  ELSE <<node>> \o PreOrderChildren(node.children, 1)

PreOrderChildren(children, i) ==
  IF i > Len(children) THEN << >>
  ELSE PreOrder(children[i]) \o PreOrderChildren(children, i + 1)

Range(seq) == {seq[i] : i \in 1..Len(seq)}

AllNodes(node) == Range(PreOrder(node))

\* every text the matcher hands to matchesText for a snapshot: names, urls
\* and text children
RECURSIVE TextsOf(_)
TextsOf(node) ==
  IF node.kind = "string" THEN {node.text}
  ELSE {node.name, node.props.url}
       \cup UNION {TextsOf(node.children[i]) : i \in 1..Len(node.children)}

RECURSIVE TemplateTextsOf(_)
TemplateTextsOf(t) ==
  IF t.kind = "text" THEN {t.text}
  ELSE {t.name, t.props.url}
       \cup UNION {TemplateTextsOf(t.children[i]) : i \in 1..Len(t.children)}

WithMode(t, mode) == [t EXCEPT !.containerMode = mode]

\* the root of the snapshot the matcher builds for the DOM
SnapshotRoot == generateAriaTree(dom, FALSE, "", NoRefs({})).root

(***************************************************************************)
(* The matcher as a state machine: one call per behaviour, on a DOM and a  *)
(* template                                                                *)
(***************************************************************************)
NoBuild ==
  /\ snapshot = null
  /\ lastRef = 0
  /\ ariaRefs = << >>
  /\ builds = << >>
  /\ cachesCounter = 0
  /\ cacheCalls = << >>

\* a generateAriaTree call that returns, as one step: beginAriaCaches, the
\* visit, endAriaCaches
AriaCachesBracket ==
  /\ cachesCounter' = cachesCounter + 1 - 1
  /\ cacheCalls' = <<"beginAriaCaches", "endAriaCaches">>

\* useState<[attachment, number]>() before the first reveal; afterwards the
\* pair is the record [attachment, revealCounter]
NoAttachment == [kind |-> "undefined"]

\* the Workbench as mounted with no stored setting: useSetting('propertiesTab',
\* 'call'), useState(false), useState({ lastEdited: 'none' }), useState()
NoWorkbench ==
  /\ selectedPropertiesTab = "call"
  /\ isInspecting = FALSE
  /\ highlightedElement = [lastEdited |-> "none"]
  /\ revealedAttachment = NoAttachment
  /\ revealSource = FALSE

NoMatcherCall ==
  /\ pc = "init"
  /\ target = null
  /\ verdict = null
  /\ matches = << >>
  /\ received = null
  /\ elements = << >>

NoCall == NoMatcherCall /\ NoWorkbench

Init ==
  /\ \/ dom \in Documents /\ template \in Templates
     \/ dom \in FieldDocuments /\ template \in FieldTemplates
     \/ dom \in TextDocuments /\ template \in TextTemplates
  /\ NoCall
  /\ NoBuild

MatchesAriaTreeReturn(r) == matches' = r.matches /\ received' = r.received

MatchesAriaTree ==
  /\ pc = "init"
  /\ pc' = "matchesAriaTree"
  /\ snapshot' = SnapshotRoot
  /\ MatchesAriaTreeReturn(matchesAriaTree(dom, template))
  /\ AriaCachesBracket
  /\ UNCHANGED <<workbenchVars, dom, template, target, verdict, elements, builderVars>>

GetAllByAria ==
  /\ pc = "init"
  /\ pc' = "getAllByAria"
  /\ snapshot' = SnapshotRoot
  /\ elements' = getAllByAria(dom, template)
  /\ AriaCachesBracket
  /\ UNCHANGED <<workbenchVars, dom, template, target, verdict, matches, received, builderVars>>

\* matchesNode(n, t, false) for the template under each container mode
MatchesNode(n) ==
  /\ pc = "init"
  /\ pc' = "matchesNode"
  /\ target' = n
  /\ verdict' = [m \in ContainerModes |-> matchesNode(n, WithMode(template, m), FALSE)]
  /\ UNCHANGED <<workbenchVars, dom, template, matches, received, elements, snapshot, builderVars,
                 cacheVars>>

ContainsList(n) ==
  /\ pc = "init"
  /\ pc' = "containsList"
  /\ target' = n
  /\ verdict' = [result |-> containsList(n.children, template.children)]
  /\ UNCHANGED <<workbenchVars, dom, template, matches, received, elements, snapshot, builderVars,
                 cacheVars>>

MatchesText(text, t) ==
  /\ pc = "init"
  /\ pc' = "matchesText"
  /\ target' = [kind |-> "text", text |-> text, template |-> t]
  /\ verdict' = [result |-> matchesText(text, t)]
  /\ UNCHANGED <<workbenchVars, dom, template, matches, received, elements, snapshot, builderVars,
                 cacheVars>>

Next ==
  \/ MatchesAriaTree
  \/ GetAllByAria
  \/ \E n \in AllNodes(SnapshotRoot) : MatchesNode(n)
  \/ \E n \in AllNodes(SnapshotRoot) : ContainsList(n)
  \/ \E text \in TextsOf(SnapshotRoot), t \in TemplateTextsOf(template) :
       MatchesText(text, t)

Spec == Init /\ [][Next]_vars

(***************************************************************************)
(* matchesNode on nested lists: a chain of lists MaxDepth deep, with or    *)
(* without a further child at each level, against a chain of templates     *)
(* with every container mode at each level                                 *)
(***************************************************************************)
MaxDepth == 2

RECURSIVE ChainNodes(_)
ChainNodes(d) ==
  IF d = 0
  THEN {Element("list", << >>, f) :
        f \in {<< >>, <<TextNode(<<"a">>)>>,
               <<TextNode(<<"a">>), Element("list", << >>, << >>)>>}}
  ELSE UNION { {Element("list", << >>, <<c>>),
                Element("list", << >>, <<c, Element("list", << >>, << >>)>>)} :
               c \in ChainNodes(d - 1) }

RECURSIVE ChainTemplates(_)
ChainTemplates(d) ==
  IF d = 0
  THEN {RoleTemplate("list", TUndefined, m, f) :
        m \in ContainerModes, f \in {<< >>, <<TextTemplate(TString(<<"a">>))>>}}
  ELSE {RoleTemplate("list", TUndefined, m, <<c>>) :
        m \in ContainerModes, c \in ChainTemplates(d - 1)}

DeepDocuments ==
  { Document(<<c>>) : c \in UNION {ChainNodes(d) : d \in 0..MaxDepth} }

DeepTemplates ==
  { t \in UNION {ChainTemplates(d) : d \in 0..MaxDepth} :
    t.containerMode = "deep-equal" }

InitDeep ==
  /\ dom \in DeepDocuments
  /\ template \in DeepTemplates
  /\ NoCall
  /\ NoBuild

NextDeep == \E n \in AllNodes(SnapshotRoot) : MatchesNode(n)

SpecDeep == InitDeep /\ [][NextDeep]_vars

(***************************************************************************)
(* The builder as a state machine: builds of a page whose elements change  *)
(* between the builds.  The root element has no role of its own; its first *)
(* child changes role, its second child changes name.                      *)
(***************************************************************************)
MaxBuilds == 3

RefRoles == {NoRole, "presentation", "button"}
RefNames == {<<"a">>, <<"b">>}
RefPrefixes == {"", "f1"}

\* the DOM with attribute f of element id set to v
RECURSIVE UpdateElement(_, _, _, _)
UpdateElement(node, id, f, v) ==
  IF node.kind = "text" THEN node
  ELSE IF node.id = id THEN [node EXCEPT ![f] = v]
  ELSE [node EXCEPT !.children = [i \in 1..Len(node.children) |->
                                    UpdateElement(node.children[i], id, f, v)]]

\* for every element, the node toAriaNode built for it in a build, or null
BuiltNodes(ids, rawRoot) ==
  [e \in ids |->
     IF \E n \in AllNodes(rawRoot) : n.role # "fragment" /\ n.element = e
     THEN CHOOSE n \in AllNodes(rawRoot) : n.role # "fragment" /\ n.element = e
     ELSE null]

InitRef ==
  /\ dom = Document(<<Element("button", <<"a">>, << >>),
                      Element("button", <<"a">>, << >>)>>)
  /\ template = null
  /\ NoCall
  /\ snapshot = null
  /\ lastRef = 0
  /\ ariaRefs = [e \in {<< >>, <<1>>, <<2>>} |-> null]
  /\ builds = << >>
  /\ cachesCounter = 0
  /\ cacheCalls = << >>

GenerateAriaTreeReturn(r) ==
  /\ snapshot' = r.root
  /\ lastRef' = r.st.lastRef
  /\ ariaRefs' = r.st.ariaRefs

GenerateAriaTree(forAI, refPrefix) ==
  /\ forAI => Len(builds) < MaxBuilds
  /\ GenerateAriaTreeReturn(
       generateAriaTree(dom, forAI, refPrefix,
                        [NoRefs({}) EXCEPT !.lastRef = lastRef, !.ariaRefs = ariaRefs]))
  /\ builds' =
       IF forAI
       THEN Append(builds,
                   BuiltNodes(ElementIds(dom),
                              generateAriaTreeVisit(
                                dom, forAI, refPrefix,
                                [NoRefs({}) EXCEPT !.lastRef = lastRef,
                                                   !.ariaRefs = ariaRefs]).ariaNode))
       ELSE builds
  /\ AriaCachesBracket
  /\ UNCHANGED <<workbenchVars, dom, template, pc, target, verdict, matches, received, elements>>

\* the page changes the role or the accessible name of an element
SetRole(e, role) ==
  /\ ElementById(dom, e).role # role
  /\ dom' = UpdateElement(dom, e, "role", role)
  /\ UNCHANGED <<workbenchVars, template, pc, target, verdict, matches, received, elements,
                 snapshot, builderVars, cacheVars>>

SetName(e, name) ==
  /\ ElementById(dom, e).name # name
  /\ dom' = UpdateElement(dom, e, "name", name)
  /\ UNCHANGED <<workbenchVars, template, pc, target, verdict, matches, received, elements,
                 snapshot, builderVars, cacheVars>>

NextRef ==
  \/ \E forAI \in BOOLEAN, refPrefix \in RefPrefixes : GenerateAriaTree(forAI, refPrefix)
  \/ \E role \in RefRoles : SetRole(<<1>>, role)
  \/ \E name \in RefNames : SetName(<<2>>, name)

SpecRef == InitRef /\ [][NextRef]_vars

(***************************************************************************)
(* generateAriaTree step by step: beginAriaCaches, the visit (which        *)
(* returns, or throws out of a DOM or roleUtils call after minting some of *)
(* its refs), endAriaCaches in the finally block, the two normalizations   *)
(* and the return.  The page is a root element without a role over at most *)
(* MaxBuildSize nodes; a build may follow another on the same page.        *)
(***************************************************************************)
MaxBuildSize == 3

Span == Element(NoRole, << >>, << >>)

\* a childless element of each sort the builder tells apart
BuildElements ==
  { Span,
    [Span EXCEPT !.receivesPointerEvents = FALSE],
    [Span EXCEPT !.nodeName = "IFRAME"],
    Element("button", <<"a">>, << >>),
    Element("link", << >>, << >>),
    [Element("link", << >>, << >>) EXCEPT !.href = <<"u">>],
    [Element("presentation", << >>, << >>) EXCEPT !.href = <<"v">>] }

RECURSIVE BuildNodesOfSize(_)
RECURSIVE BuildForests(_)

BuildNodesOfSize(n) ==
  IF n = 1 THEN {TextNode(<<"a">>)} \cup BuildElements
  ELSE {[e EXCEPT !.children = f] : e \in BuildElements, f \in BuildForests(n - 1)}

\* no two text nodes are adjacent, as in a normalized DOM
BuildForests(n) ==
  IF n = 0 THEN {<< >>}
  ELSE UNION { UNION { { <<c>> \o f :
                         f \in { g \in BuildForests(n - k) :
                                 ~(c.kind = "text" /\ g # << >>
                                   /\ g[1].kind = "text") } } :
                       c \in BuildNodesOfSize(k) } :
               k \in 1..n }

\* two elements under the root, one of them with aria-owns naming the other
OwnsDocuments ==
  { UpdateElement(Document(<<a, b>>), o[1], "ariaOwns", <<o[2]>>) :
    a \in BuildElements, b \in BuildElements,
    o \in {<< <<1>>, <<2>> >>, << <<2>>, <<1>> >>} }

\* an element with ::before content and one with a display other than inline
StyledDocuments ==
  { Document(<<[e EXCEPT !.before = <<"a">>]>>) : e \in BuildElements }
  \cup { Document(<<[e EXCEPT !.block = TRUE, !.children = <<TextNode(<<"a">>)>>]>>) :
         e \in BuildElements }

BuildDocuments ==
  { Document(f) : f \in UNION { BuildForests(n) : n \in 0..MaxBuildSize } }
  \cup OwnsDocuments \cup StyledDocuments

InitBuild ==
  /\ dom \in BuildDocuments
  /\ template = null
  /\ NoCall
  /\ snapshot = null
  /\ lastRef = 0
  /\ ariaRefs = [e \in ElementIds(dom) |-> null]
  /\ builds = << >>
  /\ cachesCounter = 0
  /\ cacheCalls = << >>

\* the state generateAriaTree starts its visit from
PageState == [NoRefs({}) EXCEPT !.lastRef = lastRef, !.ariaRefs = ariaRefs]

\* the _ariaRef expandos after a visit that threw once it had minted j refs
RefsMintedBefore(full, forAI, j) ==
  [e \in DOMAIN ariaRefs |->
     IF /\ forAI
        /\ full.ariaRefs[e] # ariaRefs[e]
        /\ full.ariaRefs[e].ref \in {RefString("", lastRef + m) : m \in 1..j}
     THEN full.ariaRefs[e] ELSE ariaRefs[e]]

\* endAriaCaches after the try block and not in a finally block
endAriaCachesOnReturn(calls, thrown) ==
  IF thrown THEN calls ELSE Append(calls, "endAriaCaches")

\* the finally block: endAriaCaches runs whether or not the visit threw
endAriaCachesFinally(calls, thrown) == Append(calls, "endAriaCaches")

\* generateAriaTree is entered: beginAriaCaches()
BeginAriaCaches(forAI) ==
  /\ pc \in {"init", "returned", "thrown"}
  /\ pc' = "visit"
  /\ target' = [kind |-> "call", forAI |-> forAI]
  /\ snapshot' = null
  /\ cachesCounter' = cachesCounter + 1
  /\ cacheCalls' = <<"beginAriaCaches">>
  /\ UNCHANGED <<workbenchVars, dom, template, verdict, matches, received, elements, builderVars>>

\* visit(snapshot.root, rootElement) returns
VisitReturns ==
  /\ pc = "visit"
  /\ pc' = "finally"
  /\ target' = [kind |-> "visited", forAI |-> target.forAI,
                v |-> generateAriaTreeVisit(dom, target.forAI, "", PageState)]
  /\ lastRef' = generateAriaTreeVisit(dom, target.forAI, "", PageState).st.lastRef
  /\ ariaRefs' = generateAriaTreeVisit(dom, target.forAI, "", PageState).st.ariaRefs
  /\ UNCHANGED <<workbenchVars, dom, template, verdict, matches, received, elements, snapshot,
                 builds, cacheVars>>

\* visit(snapshot.root, rootElement) throws after minting j refs
VisitThrows(j) ==
  /\ pc = "visit"
  /\ j <= generateAriaTreeVisit(dom, target.forAI, "", PageState).st.lastRef - lastRef
  /\ pc' = "finally"
  /\ target' = [kind |-> "thrown", forAI |-> target.forAI]
  /\ lastRef' = lastRef + j
  /\ ariaRefs' = RefsMintedBefore(
                   generateAriaTreeVisit(dom, target.forAI, "", PageState).st,
                   target.forAI, j)
  /\ UNCHANGED <<workbenchVars, dom, template, verdict, matches, received, elements, snapshot,
                 builds, cacheVars>>

\* finally { endAriaCaches() }, then the exception leaves the function or the
\* function goes on
EndAriaCaches ==
  /\ pc = "finally"
  /\ cacheCalls' = endAriaCachesFinally(cacheCalls, target.kind = "thrown")
  /\ cachesCounter' = cachesCounter - (Len(cacheCalls') - Len(cacheCalls))
  /\ pc' = IF target.kind = "thrown" THEN "thrown" ELSE "normalize"
  /\ UNCHANGED <<workbenchVars, dom, template, target, verdict, matches, received, elements,
                 snapshot, builderVars>>

\* normalizeStringChildren, normalizeGenericRoles, return snapshot
NormalizeAndReturn ==
  /\ pc = "normalize"
  /\ pc' = "returned"
  /\ snapshot' = generateAriaTreeNormalize(target.v).root
  /\ UNCHANGED <<workbenchVars, dom, template, target, verdict, matches, received, elements,
                 builderVars, cacheVars>>

NextBuild ==
  \/ \E forAI \in BOOLEAN : BeginAriaCaches(forAI)
  \/ VisitReturns
  \/ \E j \in 0..MaxBuildSize : VisitThrows(j)
  \/ EndAriaCaches
  \/ NormalizeAndReturn

SpecBuild == InitBuild /\ [][NextBuild]_vars

(***************************************************************************)
(* generateAriaTree on pages with aria-owns: two elements under the root   *)
(* or one inside the other, each naming up to MaxOwns ids among the        *)
(* elements of the page (itself, the other, its parent, its child, the     *)
(* root, an id twice)                                                      *)
(***************************************************************************)
MaxOwns == 2

OwnsElements ==
  { Element("list", << >>, <<TextNode(<<"a">>)>>),
    Element(NoRole, << >>, <<TextNode(<<"a">>)>>) }

OwnsShapes ==
  { Document(<<a, b>>) : a \in OwnsElements, b \in OwnsElements }
  \cup { Document(<<[a EXCEPT !.children = <<b>>]>>) :
         a \in OwnsElements, b \in OwnsElements }

\* the lists of at most n ids of a page
RECURSIVE OwnsLists(_, _)
OwnsLists(ids, n) ==
  IF n = 0 THEN { << >> }
  ELSE OwnsLists(ids, n - 1)
       \cup { <<x>> \o l : x \in ids, l \in OwnsLists(ids, n - 1) }

\* the page with the aria-owns of its two elements set
WithOwns(d, e1, l1, e2, l2) ==
  UpdateElement(UpdateElement(d, e1, "ariaOwns", l1), e2, "ariaOwns", l2)

CyclicDocuments ==
  UNION { { WithOwns(d, <<1>>, l1, CHOOSE e \in ElementIds(d) : e \notin {<< >>, <<1>>}, l2) :
            l1 \in OwnsLists(ElementIds(d), MaxOwns),
            l2 \in OwnsLists(ElementIds(d), MaxOwns) } :
          d \in OwnsShapes }

InitOwns ==
  /\ dom \in CyclicDocuments
  /\ template = null
  /\ NoCall
  /\ snapshot = null
  /\ lastRef = 0
  /\ ariaRefs = [e \in ElementIds(dom) |-> null]
  /\ builds = << >>
  /\ cachesCounter = 0
  /\ cacheCalls = << >>

SpecOwns == InitOwns /\ [][NextBuild]_vars

(***************************************************************************)
(* The template parser and the round trip of a regex rendering.  The       *)
(* parser is outside the matcher: parseAriaSnapshot reads the syntax       *)
(* renderAriaTree writes (one node a line, two spaces a level, a key of    *)
(* role, name and attributes, a name either a quoted string or a regex     *)
(* between slashes, a value a regex when it starts and ends with '/').     *)
(* The regex sources read here are the ones convertToBestGuessRegex        *)
(* writes: literals, escapes, \d, classes and the quantifier '+'.          *)
(***************************************************************************)
\* str.split('\n')
RECURSIVE SplitLines(_)
SplitLines(str) ==
  IF \A i \in 1..Len(str) : str[i] # "\n" THEN <<str>>
  ELSE IF Head(str) = "\n" THEN << << >> >> \o SplitLines(Tail(str))
  ELSE [SplitLines(Tail(str)) EXCEPT ![1] = <<Head(str)>> \o @]

\* the depth of a line: its leading two-space indents
RECURSIVE LineIndent(_)
LineIndent(line) ==
  IF line # << >> /\ Head(line) = "  " THEN 1 + LineIndent(Tail(line)) ELSE 0

LineBody(line) == SubSeq(line, LineIndent(line) + 1, Len(line))

\* the characters of a class body
RECURSIVE RegExpClassChars(_)
RegExpClassChars(body) ==
  IF body = << >> THEN {}
  ELSE IF Head(body) = "\\" /\ Len(body) >= 2
    THEN (IF body[2] = "d" THEN Digits ELSE {body[2]})
         \cup RegExpClassChars(Tail(Tail(body)))
  ELSE {Head(body)} \cup RegExpClassChars(Tail(body))

\* the index of the ']' that closes the class opened before source[j]
RECURSIVE RegExpClassEnd(_, _)
RegExpClassEnd(source, j) ==
  IF j > Len(source) THEN 0
  ELSE IF source[j] = "\\" THEN RegExpClassEnd(source, j + 2)
  ELSE IF source[j] = "]" THEN j ELSE RegExpClassEnd(source, j + 1)

\* where the first atom of a source ends, and the characters it takes
RegExpAtomEnd(source) ==
  IF Head(source) = "\\" THEN 2
  ELSE IF Head(source) = "[" THEN RegExpClassEnd(source, 2) ELSE 1

RegExpAtomChars(source, e) ==
  IF Head(source) = "\\" THEN (IF source[2] = "d" THEN Digits ELSE {source[2]})
  ELSE IF Head(source) = "[" THEN RegExpClassChars(SubSeq(source, 2, e - 1))
  ELSE {Head(source)}

\* new RegExp(source): the atoms of the source, or the SyntaxError of a
\* quantifier or a group with nothing before it and of an unclosed class
RECURSIVE RegExpParse(_)
SyntaxError == [ok |-> FALSE, atoms |-> << >>]

RegExpParseRest(chars, plus, rest) ==
  IF ~rest.ok THEN SyntaxError
  ELSE [ok |-> TRUE,
        atoms |-> <<Class(chars, 1, IF plus THEN 0 ELSE 1)>> \o rest.atoms]

RegExpParseFrom(source, e, plus) ==
  IF e = 0 \/ e > Len(source) THEN SyntaxError
  ELSE RegExpParseRest(RegExpAtomChars(source, e), plus,
                       RegExpParse(SubSeq(source, e + (IF plus THEN 2 ELSE 1),
                                          Len(source))))

RegExpParseAtom(source, e) ==
  RegExpParseFrom(source, e, e > 0 /\ e < Len(source) /\ source[e + 1] = "+")

RegExpParse(source) ==
  IF source = << >> \/ source = <<"(", "?", ":", ")">>
  THEN [ok |-> TRUE, atoms |-> << >>]
  ELSE IF Head(source) \in {"+", "*", "?", ")", "("} THEN SyntaxError
  ELSE RegExpParseAtom(source, RegExpAtomEnd(source))

TError == [kind |-> "error"]

\* { pattern } of a regex source, or the error of its SyntaxError
regexFrom(parsed) == IF parsed.ok THEN TRegex(parsed.atoms) ELSE TError

regexOf(source) == regexFrom(RegExpParse(source))

valueOrRegex(value) ==
  IF Len(value) > 1 /\ Head(value) = "/" /\ value[Len(value)] = "/"
  THEN regexOf(SubSeq(value, 2, Len(value) - 1))
  ELSE TString(value)

\* JSON.parse of the inside of a quoted string
RECURSIVE JSONUnescape(_)
JSONUnescape(str) ==
  IF str = << >> THEN << >>
  ELSE IF Head(str) = "\\" /\ Len(str) >= 2
    THEN <<str[2]>> \o JSONUnescape(Tail(Tail(str)))
  ELSE <<Head(str)>> \o JSONUnescape(Tail(str))

\* the index of the quote that closes the string opened before key[j]
RECURSIVE ClosingQuote(_, _)
ClosingQuote(key, j) ==
  IF j > Len(key) THEN 0
  ELSE IF key[j] = "\\" THEN ClosingQuote(key, j + 2)
  ELSE IF key[j] = "\"" THEN j ELSE ClosingQuote(key, j + 1)

\* the index of the slash that closes the regex opened before key[j]
RECURSIVE ClosingSlash(_, _, _)
ClosingSlash(key, j, insideClass) ==
  IF j > Len(key) THEN 0
  ELSE IF key[j] = "\\" THEN ClosingSlash(key, j + 2, insideClass)
  ELSE IF key[j] = "[" THEN ClosingSlash(key, j + 1, TRUE)
  ELSE IF key[j] = "]" THEN ClosingSlash(key, j + 1, FALSE)
  ELSE IF key[j] = "/" /\ ~insideClass THEN j
  ELSE ClosingSlash(key, j + 1, insideClass)

\* the name between key[4] and its closing delimiter at q ("Unterminated
\* string", "Unterminated regex" when there is none)
quotedName(key, q) ==
  IF q = 0 THEN [name |-> TError, next |-> Len(key) + 1]
  ELSE [name |-> TString(JSONUnescape(SubSeq(key, 4, q - 1))), next |-> q + 1]

regexName(key, q) ==
  IF q = 0 THEN [name |-> TError, next |-> Len(key) + 1]
  ELSE [name |-> regexOf(SubSeq(key, 4, q - 1)), next |-> q + 1]

\* the name of a key (its role is key[1]) and the index after it
parseName(key) ==
  IF Len(key) >= 3 /\ key[2] = " " /\ key[3] = "\""
  THEN quotedName(key, ClosingQuote(key, 4))
  ELSE IF Len(key) >= 3 /\ key[2] = " " /\ key[3] = "/"
  THEN regexName(key, ClosingSlash(key, 4, FALSE))
  ELSE [name |-> TUndefined, next |-> 2]

\* the attributes of a key from index j on, set on the template node t
RECURSIVE parseAttributes(_, _, _)
parseAttributes(t, key, j) ==
  IF j > Len(key) THEN [node |-> t, next |-> j]
  ELSE IF key[j] = " [checked=mixed]"
    THEN parseAttributes([t EXCEPT !.checked = "mixed"], key, j + 1)
  ELSE IF key[j] = " [checked]"
    THEN parseAttributes([t EXCEPT !.checked = "true"], key, j + 1)
  ELSE IF key[j] = " [disabled]"
    THEN parseAttributes([t EXCEPT !.disabled = "true"], key, j + 1)
  ELSE IF key[j] = " [expanded]"
    THEN parseAttributes([t EXCEPT !.expanded = "true"], key, j + 1)
  ELSE IF key[j] = " [pressed=mixed]"
    THEN parseAttributes([t EXCEPT !.pressed = "mixed"], key, j + 1)
  ELSE IF key[j] = " [pressed]"
    THEN parseAttributes([t EXCEPT !.pressed = "true"], key, j + 1)
  ELSE IF key[j] = " [selected]"
    THEN parseAttributes([t EXCEPT !.selected = "true"], key, j + 1)
  ELSE IF key[j] = " [level=" /\ j + 2 <= Len(key)
    THEN parseAttributes([t EXCEPT !.level = key[j + 1]], key, j + 3)
  ELSE [node |-> t, next |-> j]

\* the template node of a key without its children, and the index of what
\* follows the key; anything but the end, ':' or ': ' there is an error
keyStopped(key, r) ==
  IF r.next > Len(key) \/ key[r.next] \in {":", ": "} THEN r
  ELSE [node |-> [r.node EXCEPT !.name = TError], next |-> Len(key) + 1]

parseKeyFrom(key, n) ==
  keyStopped(key, parseAttributes(RoleTemplate(key[1], n.name, undefined, << >>),
                                  key, n.next))

parseKey(key) == parseKeyFrom(key, parseName(key))

RECURSIVE parseLine(_, _)
RECURSIVE parseLines(_, _, _)

\* line i is '- /url: value' under a key of depth indent
isUrlLine(lines, i, indent) ==
  /\ i <= Len(lines)
  /\ LineIndent(lines[i]) = indent
  /\ Len(LineBody(lines[i])) >= 3
  /\ LineBody(lines[i])[1] = "  - /"

urlOf(lines, i, indent) ==
  IF isUrlLine(lines, i, indent)
  THEN valueOrRegex(SubSeq(LineBody(lines[i]), 4, Len(LineBody(lines[i]))))
  ELSE TUndefined

withChildren(t, url, r) ==
  [node |-> [t EXCEPT !.children = r.nodes, !.props = [url |-> url]],
   next |-> r.next]

\* the node of a key line: alone, with an inline text, or with the lines
\* one level deeper
parseKeyLine(lines, i, indent, key, k) ==
  IF k.next > Len(key) THEN [node |-> k.node, next |-> i + 1]
  ELSE IF key[k.next] = ": "
    THEN [node |-> [k.node EXCEPT !.children =
                      <<TextTemplate(valueOrRegex(SubSeq(key, k.next + 1, Len(key))))>>],
          next |-> i + 1]
    ELSE withChildren(k.node, urlOf(lines, i + 1, indent),
                      parseLines(lines,
                                 IF isUrlLine(lines, i + 1, indent) THEN i + 2 ELSE i + 1,
                                 indent + 1))

\* the template node that starts at line i, and the line after it
parseLine(lines, i) ==
  IF Head(LineBody(lines[i])) = "- text: "
  THEN [node |-> TextTemplate(valueOrRegex(Tail(LineBody(lines[i])))), next |-> i + 1]
  ELSE parseKeyLine(lines, i, LineIndent(lines[i]), Tail(LineBody(lines[i])),
                    parseKey(Tail(LineBody(lines[i]))))

parseLinesAfter(lines, indent, first) ==
  [nodes |-> <<first.node>> \o parseLines(lines, first.next, indent).nodes,
   next |-> parseLines(lines, first.next, indent).next]

\* the template nodes of depth indent from line i on, and the line after them
parseLines(lines, i, indent) ==
  IF i > Len(lines) \/ LineIndent(lines[i]) # indent
     \/ LineBody(lines[i]) = << >> \/ Head(LineBody(lines[i])) \notin {"- ", "- text: "}
  THEN [nodes |-> << >>, next |-> i]
  ELSE parseLinesAfter(lines, indent, parseLine(lines, i))

\* the fragment of a snapshot text
parseAriaSnapshot(text) ==
  RoleTemplate("fragment", TUndefined, undefined,
               parseLines(SplitLines(text), 1, 0).nodes)

\* the errors of a parsed template: a name, a text or a url that is no value
RECURSIVE hasErrors(_)
hasErrors(t) ==
  IF t.kind = "text" THEN t.text = TError
  ELSE \/ t.name = TError
       \/ t.props.url = TError
       \/ \E i \in 1..Len(t.children) : hasErrors(t.children[i])

(***************************************************************************)
(* The round trip as a state machine: matchesAriaTree on a page against    *)
(* the empty template, its received.regex parsed into the next template,   *)
(* matchesAriaTree on the same page against that template                  *)
(***************************************************************************)
MaxRoundTripSize == 2

RoundTripNames ==
  {<<"a">>, <<"1", "2">>, <<"a", "/", "1", "2">>, <<"/", "a", "/">>,
   <<"/", "a", "+", "b", "/">>, <<"/">>}

RoundTripElements ==
  { Element("button", n, << >>) : n \in RoundTripNames }
  \cup { [Element("link", << >>, << >>) EXCEPT !.href = u] :
         u \in {<<"u">>, <<"/", "a", "+", "b", "/">>} }
  \cup { [Element("checkbox", << >>, << >>) EXCEPT !.checked = c] :
         c \in {"true", "mixed", "false"} }
  \cup { [Element("heading", <<"a">>, << >>) EXCEPT !.level = "2"],
         Element("list", << >>, << >>) }

RoundTripTexts ==
  { TextNode(s) : s \in {<<"a">>, <<"1", "2", "m", "b">>, <<"1", ".", "5", "0">>,
                         <<"/", "a", "+", "b", "/">>} }

RECURSIVE RoundTripNodesOfSize(_)
RECURSIVE RoundTripForests(_)

RoundTripNodesOfSize(n) ==
  IF n = 1 THEN RoundTripElements \cup RoundTripTexts
  ELSE { [e EXCEPT !.children = f] : e \in RoundTripElements, f \in RoundTripForests(n - 1) }

RoundTripForests(n) ==
  IF n = 0 THEN { << >> }
  ELSE UNION { { <<first>> \o rest :
                 first \in RoundTripNodesOfSize(k), rest \in RoundTripForests(n - k) } :
               k \in 1..n }

RoundTripDocuments ==
  { Document(f) : f \in UNION { RoundTripForests(n) : n \in 0..MaxRoundTripSize } }

InitRoundTrip ==
  /\ dom \in RoundTripDocuments
  /\ template = RoleTemplate("fragment", TUndefined, undefined, << >>)
  /\ NoCall
  /\ NoBuild

\* the received.regex of the last call becomes the expected snapshot; a
\* snapshot that does not parse throws
ParseAriaSnapshot ==
  /\ pc = "matchesAriaTree"
  /\ template # parseAriaSnapshot(received.regex)
  /\ IF hasErrors(parseAriaSnapshot(received.regex))
     THEN pc' = "parseError" /\ UNCHANGED template
     ELSE pc' = "init" /\ template' = parseAriaSnapshot(received.regex)
  /\ matches' = << >>
  /\ received' = null
  /\ UNCHANGED <<workbenchVars, dom, target, verdict, elements, snapshot, builderVars, cacheVars>>

NextRoundTrip ==
  \/ MatchesAriaTree
  \/ ParseAriaSnapshot

SpecRoundTrip == InitRoundTrip /\ [][NextRoundTrip]_vars

(***************************************************************************)
(* scoreNodeMatch on its own: one element under the root, with or without  *)
(* a child, scored against a text template or against a role template of   *)
(* up to MaxScoreChildren children                                         *)
(***************************************************************************)
MaxScoreChildren == 5

ScoreElements ==
  { [Element(r, n, c) EXCEPT !.href = u, !.checked = k] :
    r \in {"link", "button"}, n \in {<< >>, <<"a">>},
    c \in {<< >>, <<TextNode(<<"b">>)>>, <<Element("list", << >>, << >>)>>},
    u \in {NoText, <<"u">>}, k \in {undefined, "true"} }

ScoreDocuments == { Document(<<e>>) : e \in ScoreElements }

ScoreTemplates ==
  { [RoleTemplate("link", n, undefined,
                  [i \in 1..k |-> RoleTemplate("list", TUndefined, undefined, << >>)])
     EXCEPT !.props = [url |-> u], !.checked = c] :
    n \in {TUndefined, TString(<<"b">>)}, k \in 0..MaxScoreChildren,
    u \in {TUndefined, TString(<<"v">>)}, c \in {undefined, "true"} }
  \cup { TextTemplate(x) :
         x \in {TString(<<"b">>), TString(<<"a", "b">>), TRegex(<<Lit("c")>>)} }

\* the nodes and the string children of a snapshot
ScoredNodes(root) ==
  AllNodes(root)
  \cup { StringChild(x) : x \in { y \in TextsOf(root) : ~Falsy(y) } }

InitScore ==
  /\ dom \in ScoreDocuments
  /\ template \in ScoreTemplates
  /\ NoCall
  /\ NoBuild

ScoreNodeMatch(n) ==
  /\ pc = "init"
  /\ pc' = "scoreNodeMatch"
  /\ target' = n
  /\ verdict' = [score |-> scoreNodeMatch(n, template)]
  /\ UNCHANGED <<workbenchVars, dom, template, matches, received, elements, snapshot, builderVars,
                 cacheVars>>

NextScore == \E n \in ScoredNodes(SnapshotRoot) : ScoreNodeMatch(n)

SpecScore == InitScore /\ [][NextScore]_vars

(***************************************************************************)
(* Inputs that exercise the first-match search: the documents of the       *)
(* matcher against a template whose root is a text or a childless role     *)
(***************************************************************************)
RootTemplates ==
  {TextTemplate(x) : x \in {TString(<<"a">>), TString(<<"b">>), TRegex(<<Lit("a")>>)}}
  \cup {RoleTemplate(r, TUndefined, m, << >>) :
        r \in TemplateRoles \cup {"fragment"}, m \in {undefined, "equal"}}

InitFirst ==
  /\ dom \in Documents
  /\ template \in RootTemplates
  /\ NoCall
  /\ NoBuild

NextFirst == MatchesAriaTree

SpecFirst == InitFirst /\ [][NextFirst]_vars

(***************************************************************************)
(* The line-tracking matcher: matchesText, matchesNode, listEqual and      *)
(* containsList that return the failures of a comparison, each with the    *)
(* line of the template it is about.  A template node carries lineNumber.  *)
(***************************************************************************)
RECURSIVE TemplateLines(_)
RECURSIVE TemplateLinesOf(_, _)
TemplateLines(t) ==
  IF t.kind = "text" THEN 1 ELSE 1 + TemplateLinesOf(t.children, 1)

TemplateLinesOf(children, i) ==
  IF i > Len(children) THEN 0
  ELSE TemplateLines(children[i]) + TemplateLinesOf(children, i + 1)

\* the template with the line of each node: one line per node, in document
\* order, from line n on
RECURSIVE WithLineNumbers(_, _)
RECURSIVE WithLineNumbersFrom(_, _)
WithLineNumbers(t, n) ==
  IF t.kind = "text" THEN t @@ [lineNumber |-> n]
  ELSE [t EXCEPT !.children = WithLineNumbersFrom(t.children, n + 1)]
       @@ [lineNumber |-> n]

WithLineNumbersFrom(children, n) ==
  IF children = << >> THEN << >>
  ELSE <<WithLineNumbers(Head(children), n)>>
       \o WithLineNumbersFrom(Tail(children), n + TemplateLines(Head(children)))

\* a fragment root is on no line: its children start at line 1
Numbered(t) ==
  WithLineNumbers(t, IF t.kind = "role" /\ t.role = "fragment" THEN 0 ELSE 1)

MatchFailure(t, isFromTemplateRegex) ==
  [templateLineNumber |-> t.lineNumber, isFromTemplateRegex |-> isFromTemplateRegex]

matchesTextTracked(text, t) ==
  IF FalsyTemplate(t) THEN [match |-> TRUE, isFromTemplateRegex |-> FALSE]
  ELSE IF Falsy(text) THEN [match |-> FALSE, isFromTemplateRegex |-> FALSE]
  ELSE IF t.kind = "string"
    THEN [match |-> text = t.value, isFromTemplateRegex |-> FALSE]
  ELSE [match |-> StringMatch(text, t.pattern), isFromTemplateRegex |-> TRUE]

\* matchesTextNode(node, template).map(f => ({ ...f, isFromTemplateRegex: false }))
matchesTextNodeTracked(text, t) ==
  IF matchesTextTracked(text, t.text).match THEN << >>
  ELSE <<MatchFailure(t, FALSE)>>

matchesNameTracked(text, t) == matchesTextTracked(text, t.name)

FailureIf(cond, failure) == IF cond THEN <<failure>> ELSE << >>

RECURSIVE fieldFailuresFrom(_, _, _)
fieldFailuresFrom(node, t, i) ==
  IF i > Len(fields) THEN << >>
  ELSE FailureIf(t[fields[i]] # undefined /\ t[fields[i]] # node[fields[i]],
                 MatchFailure(t, FALSE))
       \o fieldFailuresFrom(node, t, i + 1)

\* the local otherDirectFailures of matchesNode: filled, and not returned
otherDirectFailures(node, t) ==
  FailureIf(t.role # "fragment" /\ t.role # node.role, MatchFailure(t, FALSE))
  \o fieldFailuresFrom(node, t, 1)
  \o FailureIf(~matchesNameTracked(node.name, t).match,
               MatchFailure(t, matchesNameTracked(node.name, t).isFromTemplateRegex))
  \o FailureIf(~matchesTextTracked(node.props.url, t.props.url).match,
               MatchFailure(t, matchesTextTracked(node.props.url,
                                                  t.props.url).isFromTemplateRegex))

RECURSIVE matchesNodeTracked(_, _, _)
RECURSIVE listEqualTrackedFrom(_, _, _, _)
RECURSIVE containsListTrackedLoop(_, _)
RECURSIVE containsListTrackedShift(_, _, _)

\* the first loop up to Math.min of the lengths, the second over the rest of
\* the template
listEqualTrackedFrom(children, t, isDeepEqual, i) ==
  IF i > Len(t) THEN << >>
  ELSE (IF i <= Len(children)
        THEN matchesNodeTracked(children[i], t[i], isDeepEqual)
        ELSE <<MatchFailure(t[i], FALSE)>>)
       \o listEqualTrackedFrom(children, t, isDeepEqual, i + 1)

listEqualTracked(children, t, isDeepEqual) ==
  listEqualTrackedFrom(children, t, isDeepEqual, 1)

\* let c = cc.shift(); while (c) { failures = matchesNode(c, t, false);
\* if (failures.length === 0) break; c = cc.shift(); localFailures.push(...failures); }
containsListTrackedShift(cc, t, localFailures) ==
  IF cc = << >> THEN [found |-> FALSE, cc |-> << >>, localFailures |-> localFailures]
  ELSE IF ~Truthy(Head(cc))
    THEN [found |-> FALSE, cc |-> Tail(cc), localFailures |-> localFailures]
  ELSE IF Len(matchesNodeTracked(Head(cc), t, FALSE)) = 0
    THEN [found |-> TRUE, cc |-> Tail(cc), localFailures |-> localFailures]
  ELSE containsListTrackedShift(Tail(cc), t,
         localFailures \o matchesNodeTracked(Head(cc), t, FALSE))

\* if (!c) return [...localFailures, { templateLineNumber: t.lineNumber, ... }]
containsListTrackedNext(r, tt) ==
  IF ~r.found THEN r.localFailures \o <<MatchFailure(Head(tt), FALSE)>>
  ELSE containsListTrackedLoop(r.cc, Tail(tt))

containsListTrackedLoop(cc, tt) ==
  IF tt = << >> THEN << >>
  ELSE containsListTrackedNext(containsListTrackedShift(cc, Head(tt), << >>), tt)

containsListTracked(children, t) ==
  IF Len(t) > Len(children) THEN <<MatchFailure(t[Len(children) + 1], FALSE)>>
  ELSE containsListTrackedLoop(children, t)

matchesNodeTracked(node, t, isDeepEqual) ==
  IF node.kind = "string" /\ t.kind = "text" THEN matchesTextNodeTracked(node.text, t)
  ELSE IF node.kind # "node" \/ t.kind # "role" THEN <<MatchFailure(t, FALSE)>>
  ELSE IF t.containerMode = "contain"
    THEN containsListTracked(node.children, t.children)
  ELSE IF t.containerMode = "equal"
    THEN listEqualTracked(node.children, t.children, FALSE)
  ELSE IF t.containerMode = "deep-equal" \/ isDeepEqual
    THEN listEqualTracked(node.children, t.children, TRUE)
  ELSE containsListTracked(node.children, t.children)

InitTracked ==
  /\ \/ dom \in Documents /\ template \in {Numbered(t) : t \in Templates}
     \/ dom \in FieldDocuments /\ template \in {Numbered(t) : t \in FieldTemplates}
     \/ dom \in TextDocuments /\ template \in {Numbered(t) : t \in TextTemplates}
  /\ NoCall
  /\ NoBuild

MatchesNodeTracked(n, isDeepEqual) ==
  /\ pc = "init"
  /\ pc' = "matchesNodeTracked"
  /\ target' = n
  /\ verdict' = [failures |-> matchesNodeTracked(n, template, isDeepEqual),
                 isDeepEqual |-> isDeepEqual]
  /\ UNCHANGED <<workbenchVars, dom, template, matches, received, elements, snapshot, builderVars,
                 cacheVars>>

NextTracked ==
  \E n \in AllNodes(SnapshotRoot), isDeepEqual \in BOOLEAN :
    MatchesNodeTracked(n, isDeepEqual)

SpecTracked == InitTracked /\ [][NextTracked]_vars

(***************************************************************************)
(* The Workbench: the properties tab and the inspect mode.  Each callback  *)
(* is one step, run on the state of the render that follows the step       *)
(* before it.                                                              *)
(***************************************************************************)
MaxReveals == 2

PropertiesTabs ==
  {"inspector", "call", "log", "errors", "source", "console", "network",
   "attachments", "annotations"}

Attachments == {"a1", "a2"}

HighlightedElements ==
  {[lastEdited |-> "none"], [lastEdited |-> "locator", locator |-> "l1"],
   [lastEdited |-> "ariaSnapshot", ariaSnapshot |-> "s1"]}

matcherVars ==
  <<dom, template, pc, target, verdict, matches, received, elements, snapshot,
    builderVars, cacheVars>>

\* selectPropertiesTab that leaves the inspect mode as it is
selectPropertiesTabKeep(tab) ==
  /\ selectedPropertiesTab' = tab
  /\ UNCHANGED isInspecting

\* setSelectedPropertiesTab(tab); if (tab !== 'inspector') setIsInspectingState(false);
selectPropertiesTab(tab) ==
  /\ selectedPropertiesTab' = tab
  /\ isInspecting' = IF tab # "inspector" THEN FALSE ELSE isInspecting

\* the TabbedPane's setSelectedTab
SelectPropertiesTab(tab) ==
  /\ selectPropertiesTab(tab)
  /\ UNCHANGED <<highlightedElement, revealedAttachment, revealSource, matcherVars>>

RevealConsole ==
  /\ selectPropertiesTab("console")
  /\ UNCHANGED <<highlightedElement, revealedAttachment, revealSource, matcherVars>>

\* if (!isInspecting && value) selectPropertiesTab('inspector');
\* setIsInspectingState(value);
SetIsInspecting(value) ==
  /\ IF ~isInspecting /\ value
       THEN selectedPropertiesTab' = "inspector"
       ELSE UNCHANGED selectedPropertiesTab
  /\ isInspecting' = value
  /\ UNCHANGED <<highlightedElement, revealedAttachment, revealSource, matcherVars>>

ElementPicked(element) ==
  /\ highlightedElement' = element
  /\ selectPropertiesTab("inspector")
  /\ UNCHANGED <<revealedAttachment, revealSource, matcherVars>>

\* the inspector tab's setHighlightedElement
SetHighlightedElement(element) ==
  /\ highlightedElement' = element
  /\ UNCHANGED <<selectedPropertiesTab, isInspecting, revealedAttachment,
                 revealSource, matcherVars>>

RevealAttachment(attachment) ==
  /\ revealedAttachment # NoAttachment =>
       revealedAttachment.revealCounter < MaxReveals
  /\ selectPropertiesTab("attachments")
  /\ revealedAttachment' =
       IF revealedAttachment = NoAttachment
       THEN [attachment |-> attachment, revealCounter |-> 0]
       ELSE [attachment |-> attachment,
             revealCounter |-> revealedAttachment.revealCounter + 1]
  /\ UNCHANGED <<highlightedElement, revealSource, matcherVars>>

\* a new revealSource prop, and the effect that depends on it
RevealSource(value) ==
  /\ value # revealSource
  /\ revealSource' = value
  /\ IF value THEN selectPropertiesTab("source")
              ELSE UNCHANGED <<selectedPropertiesTab, isInspecting>>
  /\ UNCHANGED <<highlightedElement, revealedAttachment, matcherVars>>

\* the selected action and the revealed error it sets are not part of the state
RevealInSource ==
  /\ selectPropertiesTab("source")
  /\ UNCHANGED <<highlightedElement, revealedAttachment, revealSource, matcherVars>>

\* the Workbench after its first render and effects, with any stored tab
InitWorkbench ==
  /\ revealSource \in BOOLEAN
  /\ selectedPropertiesTab \in
       (IF revealSource THEN {"source"} ELSE PropertiesTabs)
  /\ isInspecting = FALSE
  /\ highlightedElement = [lastEdited |-> "none"]
  /\ revealedAttachment = NoAttachment
  /\ dom = Document(<< >>)
  /\ template = RoleTemplate("fragment", TUndefined, undefined, << >>)
  /\ NoMatcherCall
  /\ NoBuild

NextWorkbench ==
  \/ \E tab \in PropertiesTabs : SelectPropertiesTab(tab)
  \/ RevealConsole
  \/ \E value \in BOOLEAN : SetIsInspecting(value)
  \/ \E element \in HighlightedElements : ElementPicked(element)
  \/ \E element \in HighlightedElements : SetHighlightedElement(element)
  \/ \E attachment \in Attachments : RevealAttachment(attachment)
  \/ \E value \in BOOLEAN : RevealSource(value)
  \/ RevealInSource

SpecWorkbench == InitWorkbench /\ [][NextWorkbench]_vars

(***************************************************************************)
(* Properties of the matcher                                               *)
(***************************************************************************)
\* C1: for a node n and a role template t, with t[m] the template whose root
\* containerMode is m: matchesNode(n, t['deep-equal']) implies
\* matchesNode(n, t['equal']), which implies matchesNode(n, t['contain']).
ModeMonotonicity ==
  pc = "matchesNode" =>
    /\ verdict["deep-equal"] => verdict["equal"]
    /\ verdict["equal"] => verdict["contain"]

\* a deep-equal match of a template with grandchildren
ModeMonotonicityWitness ==
  /\ pc = "matchesNode"
  /\ verdict["deep-equal"]
  /\ \E i \in 1..Len(template.children) :
       /\ template.children[i].kind = "role"
       /\ Len(template.children[i].children) > 0

\* there is a strictly increasing map from the positions of tt to the
\* positions of children under which every template child matches its child
Embeds(children, tt) ==
  \E f \in [1..Len(tt) -> 1..Len(children)] :
    /\ \A j, k \in 1..Len(tt) : j < k => f[j] < f[k]
    /\ \A j \in 1..Len(tt) : matchesNode(children[f[j]], tt[j], FALSE)

\* C2: containsList(children, templateChildren) is true exactly when the
\* template children embed, in order, into the children.
ContainsListIsSubsequence ==
  pc = "containsList" =>
    (verdict.result <=> Embeds(target.children, template.children))

\* an accepted list in which the greedy scan skips a child
ContainsListWitness ==
  /\ pc = "containsList"
  /\ verdict.result
  /\ Len(template.children) > 0
  /\ ~matchesNode(target.children[1], template.children[1], FALSE)

\* the first node in pre-order that matches the template, if any
FirstMatch(snapshotRoot, t) ==
  IF \E k \in 1..Len(PreOrder(snapshotRoot)) :
       matchesNode(PreOrder(snapshotRoot)[k], t, FALSE)
  THEN << PreOrder(snapshotRoot)[
            CHOOSE k \in 1..Len(PreOrder(snapshotRoot)) :
              /\ matchesNode(PreOrder(snapshotRoot)[k], t, FALSE)
              /\ \A j \in 1..(k - 1) :
                   ~matchesNode(PreOrder(snapshotRoot)[j], t, FALSE)] >>
  ELSE << >>

\* C3 (as amended): for a role template, the matches matchesAriaTree returns
\* hold the first node of the snapshot, in pre-order, that matches the
\* template and nothing else; they are empty when no node matches.
MatchesIsFirstMatch ==
  pc = "matchesAriaTree" => matches = FirstMatch(snapshot, template)

\* one match is returned while two nodes match
MatchesIsFirstMatchWitness ==
  /\ pc = "matchesAriaTree"
  /\ Len(matches) = 1
  /\ Cardinality({n \in AllNodes(snapshot) : matchesNode(n, template, FALSE)}) > 1

\* C3 as stated: every node of the snapshot that matches the template is in
\* the returned matches.
EveryMatchReturned ==
  pc = "matchesAriaTree" =>
    \A n \in AllNodes(snapshot) :
      matchesNode(n, template, FALSE) => n \in Range(matches)

\* C4 as stated: the element of every node of the snapshot that matches the
\* template is in the array getAllByAria returns, descendants of matching
\* nodes included.
EveryMatchingElementReturned ==
  pc = "getAllByAria" =>
    \A n \in AllNodes(snapshot) :
      matchesNode(n, template, FALSE) => n.element \in Range(elements)

\* C5: matchesAriaTree returns a defined received.diffTarget exactly when the
\* matches it returns are empty.
DiffTargetIffNoMatch ==
  pc = "matchesAriaTree" =>
    (received.diffTarget # NoText <=> matches = << >>)

\* a mismatch with a rendered best candidate
DiffTargetWitness ==
  /\ pc = "matchesAriaTree"
  /\ matches = << >>
  /\ received.diffTarget # NoText
  /\ Len(received.diffTarget) > 0

\* C6: matchesNode accepts a node only if every state attribute the template
\* specifies is equal to the node's, an absent one included; the value the
\* node has for an attribute the template omits does not change the result.
StateAttributesStrict ==
  pc = "matchesNode" =>
    /\ verdict[template.containerMode] =>
         \A f \in FieldNames : template[f] # undefined => target[f] = template[f]
    /\ \A f \in FieldNames :
         template[f] = undefined =>
           \A v \in FieldValues[f] \cup {undefined} :
             matchesNode([target EXCEPT ![f] = v], template, FALSE)
               = verdict[template.containerMode]

\* an accepted node: one attribute is specified, another is set on the node
\* and omitted by the template
StateAttributesWitness ==
  /\ pc = "matchesNode"
  /\ verdict[template.containerMode]
  /\ \E f \in FieldNames : template[f] # undefined
  /\ \E f \in FieldNames : template[f] = undefined /\ target[f] # undefined

\* the strings a pattern of character classes accepts
RECURSIVE InLanguage(_, _)
InLanguage(pattern, u) ==
  IF pattern = << >> THEN u = << >>
  ELSE \E k \in 0..Len(u) :
         /\ k >= Head(pattern).min
         /\ Head(pattern).max = 0 \/ k <= Head(pattern).max
         /\ \A m \in 1..k : u[m] \in Head(pattern).chars
         /\ InLanguage(Tail(pattern), SubSeq(u, k + 1, Len(u)))

\* some substring of text is accepted by the pattern
FoundAnywhere(pattern, text) ==
  \E i \in 1..(Len(text) + 1) :
    \E j \in (i - 1)..Len(text) : InLanguage(pattern, SubSeq(text, i, j))

\* C7: matchesText decides in this order: an absent or empty template matches
\* any text; otherwise an absent or empty text does not match; otherwise a
\* string template matches on equality only; otherwise a regex template
\* matches when the pattern is found anywhere in the text.
MatchesTextOrder ==
  pc = "matchesText" =>
    verdict.result =
      (IF target.template.kind = "undefined" THEN TRUE
       ELSE IF target.template.kind = "string" /\ target.template.value = << >>
         THEN TRUE
       ELSE IF target.text = NoText \/ target.text = << >> THEN FALSE
       ELSE IF target.template.kind = "string"
         THEN target.text = target.template.value
       ELSE FoundAnywhere(target.template.pattern, target.text))

\* a regex that accepts the empty string rejects an empty or absent text,
\* and a regex is found inside a longer text
MatchesTextOrderWitness ==
  /\ pc = "matchesText"
  /\ target.template.kind = "regex"
  /\ \/ /\ Falsy(target.text)
        /\ InLanguage(target.template.pattern, << >>)
        /\ ~verdict.result
     \/ /\ verdict.result
        /\ ~InLanguage(target.template.pattern, target.text)

\* t with containerMode 'equal' set on every role node that sets none
RECURSIVE FillEqual(_)
FillEqual(t) ==
  IF t.kind = "text" THEN t
  ELSE [t EXCEPT !.containerMode = IF @ = undefined THEN "equal" ELSE @,
                 !.children = [i \in 1..Len(t.children) |-> FillEqual(t.children[i])]]

\* the same, but only down to the nodes that set 'equal' or 'contain'
RECURSIVE FillEqualDeep(_)
FillEqualDeep(t) ==
  IF t.kind = "text" THEN t
  ELSE IF t.containerMode \in {"equal", "contain"} THEN t
  ELSE [t EXCEPT !.containerMode = IF @ = undefined THEN "equal" ELSE @,
                 !.children = [i \in 1..Len(t.children) |->
                                 FillEqualDeep(t.children[i])]]

\* C8 (as amended): under a template node whose containerMode is
\* 'deep-equal', every descendant template node that sets no container mode
\* and is reached through nodes that set none or 'deep-equal' has its
\* children compared in equal mode: writing 'equal' on each of them does not
\* change the result of matchesNode.
DeepEqualThroughUnsetNodes ==
  pc = "matchesNode" =>
    verdict["deep-equal"]
      = matchesNode(target,
                    [WithMode(template, "deep-equal")
                     EXCEPT !.children = [i \in 1..Len(template.children) |->
                                            FillEqualDeep(template.children[i])]],
                    FALSE)

\* deep-equal rejects, two levels down, what equal accepts
DeepEqualWitness ==
  /\ pc = "matchesNode"
  /\ verdict["equal"]
  /\ ~verdict["deep-equal"]
  /\ Len(template.children) > 0
  /\ template.children[1].kind = "role"
  /\ template.children[1].containerMode = undefined
  /\ Len(template.children[1].children) > 0
  /\ template.children[1].children[1].kind = "role"
  /\ template.children[1].children[1].containerMode = undefined

\* C8 as stated: under a template node whose containerMode is 'deep-equal',
\* every descendant template node, at any depth, that sets no container mode
\* has its children compared in equal mode: writing 'equal' on each of them
\* does not change the result of matchesNode.
DeepEqualThroughWholeSubtree ==
  pc = "matchesNode" =>
    verdict["deep-equal"]
      = matchesNode(target,
                    [WithMode(template, "deep-equal")
                     EXCEPT !.children = [i \in 1..Len(template.children) |->
                                            FillEqual(template.children[i])]],
                    FALSE)

\* role, state attributes, name and url of the node satisfy the template
HeaderMatches(node, t) ==
  matchesNode(node, [t EXCEPT !.children = << >>, !.containerMode = "contain"], FALSE)

\* C9: under a 'deep-equal' template node, a child template that sets
\* 'contain' accepts the child at its position exactly when its own children
\* embed in order into the child's; the other children are compared deeply.
RestoringContain ==
  pc = "matchesNode" =>
    verdict["deep-equal"]
      = (/\ HeaderMatches(target, template)
         /\ Len(target.children) = Len(template.children)
         /\ \A i \in 1..Len(template.children) :
              IF template.children[i].kind = "role"
                 /\ template.children[i].containerMode = "contain"
              THEN /\ target.children[i].kind = "node"
                   /\ HeaderMatches(target.children[i], template.children[i])
                   /\ Embeds(target.children[i].children,
                             template.children[i].children)
              ELSE matchesNode(target.children[i], template.children[i], TRUE))

\* a deep-equal match in which the child under 'contain' has an extra child
RestoringContainWitness ==
  /\ pc = "matchesNode"
  /\ verdict["deep-equal"]
  /\ Len(template.children) > 0
  /\ template.children[1].kind = "role"
  /\ template.children[1].containerMode = "contain"
  /\ Len(template.children[1].children) > 0
  /\ Len(target.children[1].children) > Len(template.children[1].children)

(***************************************************************************)
(* Properties of the builder                                               *)
(***************************************************************************)
\* the builds from i to j that built a node for e all saw the role and the
\* name build i saw
SameRoleAndName(e, i, j) ==
  \A k \in i..j :
    builds[k][e].kind = "node" =>
      /\ builds[k][e].role = builds[i][e].role
      /\ builds[k][e].name = builds[i][e].name

\* C10: an element given the same role and name in two forAI builds, with no
\* build in between that saw another role or name for it, carries the same
\* ref in both.
RefStability ==
  \A i, j \in 1..Len(builds) :
    \A e \in DOMAIN ariaRefs :
      (/\ i < j
       /\ builds[i][e].kind = "node"
       /\ builds[j][e].kind = "node"
       /\ SameRoleAndName(e, i, j))
      => builds[i][e].ref = builds[j][e].ref

\* an element keeps its ref over a build that did not see it and that
\* minted a ref for another element
RefStabilityWitness ==
  /\ Len(builds) = 3
  /\ \E e \in DOMAIN ariaRefs :
       /\ builds[1][e].kind = "node"
       /\ builds[2][e].kind = "null"
       /\ builds[3][e].kind = "node"
       /\ builds[1][e].role = builds[3][e].role
       /\ builds[1][e].name = builds[3][e].name
       /\ builds[1][e].ref = builds[3][e].ref
       /\ \E f \in DOMAIN ariaRefs :
            /\ builds[1][f].kind = "node"
            /\ builds[2][f].kind = "node"
            /\ builds[1][f].ref # builds[2][f].ref

(***************************************************************************)
(* Snapshots returned by generateAriaTree (SpecBuild)                      *)
(***************************************************************************)
\* C11: in every snapshot generateAriaTree returns, after both
\* normalizations, no node has two consecutive children that are both strings
NoAdjacentStrings ==
  pc = "returned" =>
    \A n \in AllNodes(snapshot) :
      \A i \in 1..(Len(n.children) - 1) :
        ~(n.children[i].kind = "string" /\ n.children[i + 1].kind = "string")

\* C12: in every snapshot generateAriaTree returns, no node has exactly one
\* child that is a string equal to the node's name
NameSubsumption ==
  pc = "returned" =>
    \A n \in AllNodes(snapshot) :
      ~(/\ Len(n.children) = 1
        /\ n.children[1].kind = "string"
        /\ n.children[1].text = n.name)

\* the tree normalizeGenericRoles receives in the build that returned
StringNormalized == normalizeStringChildren(target.v.ariaNode)

\* a children list of exactly one AriaNode that receives pointer events
OnePointerChild(children) ==
  /\ Len(children) = 1
  /\ children[1].kind = "node"
  /\ receivesPointerEvents(children[1])

\* the generic nodes normalizeGenericRoles meets whose normalized children
\* are exactly one AriaNode that receives pointer events
ElidedGenerics ==
  { g \in AllNodes(StringNormalized) :
      g.role = "generic" /\ OnePointerChild(normalizeChildrenLoop(g.children, 1)) }

\* C13: no generic node of a returned snapshot has a children list of exactly
\* one AriaNode that receives pointer events; a generic node that would have
\* one is absent from the snapshot and its child stands in the snapshot
GenericElisionBounded ==
  pc = "returned" =>
    /\ \A n \in AllNodes(snapshot) :
         ~(n.role = "generic" /\ OnePointerChild(n.children))
    /\ \A g \in ElidedGenerics :
         /\ \A n \in AllNodes(snapshot) : n.role = "fragment" \/ n.element # g.element
         /\ normalizeChildrenLoop(g.children, 1)[1] \in AllNodes(snapshot)

\* a build returned a snapshot from which such a generic node was removed,
\* its child being kept under another node
GenericElisionWitness ==
  /\ pc = "returned"
  /\ \E g \in ElidedGenerics :
       \E n \in AllNodes(snapshot) :
         \E i \in 1..Len(n.children) :
           n.children[i] = normalizeChildrenLoop(g.children, 1)[1]

\* C14: every node with role iframe in a built snapshot has no children
IframeIsLeaf ==
  pc = "returned" =>
    \A n \in AllNodes(snapshot) : n.role = "iframe" => n.children = << >>

\* C15: a link node whose source element has an href attribute carries
\* props.url equal to the href of that element, whatever its descendants carry
LinkUrlIsOwnHref ==
  pc = "returned" =>
    \A n \in AllNodes(snapshot) :
      (n.role = "link" /\ ElementById(dom, n.element).href # NoText)
        => n.props.url = ElementById(dom, n.element).href

\* a returned snapshot holds a link built from an element with an href that
\* has a child element with another href and no node of its own
LinkUrlWitness ==
  /\ pc = "returned"
  /\ \E n \in AllNodes(snapshot) :
       /\ n.role = "link"
       /\ ElementById(dom, n.element).href = <<"u">>
       /\ \E i \in 1..Len(ElementById(dom, n.element).children) :
            /\ ElementById(dom, n.element).children[i].kind = "element"
            /\ ElementById(dom, n.element).children[i].role = "presentation"
            /\ ElementById(dom, n.element).children[i].href = <<"v">>

\* C16: every generateAriaTree call invokes beginAriaCaches once and
\* endAriaCaches once after it before control leaves the function, whether
\* the visit returns or throws; outside a call no bracket is left open
AriaCachesBalanced ==
  /\ pc = "init" => cachesCounter = 0 /\ cacheCalls = << >>
  /\ pc \in {"visit", "finally"} =>
       cachesCounter = 1 /\ cacheCalls = <<"beginAriaCaches">>
  /\ pc \in {"normalize", "returned", "thrown"} =>
       cachesCounter = 0 /\ cacheCalls = <<"beginAriaCaches", "endAriaCaches">>

\* a call whose visit threw has left the function, after an earlier call
AriaCachesWitness ==
  /\ pc = "thrown"
  /\ target.kind = "thrown"
  /\ lastRef > 0
  /\ cacheCalls = <<"beginAriaCaches", "endAriaCaches">>

(***************************************************************************)
(* The renderer (Spec)                                                     *)
(***************************************************************************)
\* the key line renderAriaTree pushes for an AriaNode
KeyLine(n, mode) == renderVisit(n, null, << >>, mode, FALSE)[1]

EndsWithColon(line) == line[Len(line)] = ":"

\* the nodes of the snapshot renderAriaTree pushes a key line for
RenderedNodes == { n \in AllNodes(snapshot) : n # snapshot }

\* C17: for a node whose children list is empty, renderAriaTree emits a key
\* line ending in ':' exactly when the node has props (the url of a link),
\* the line of the prop following it
TrailingColonIffProps ==
  pc = "matchesAriaTree" =>
    \A n \in RenderedNodes : \A mode \in {"raw", "regex"} :
      n.children = << >> =>
        /\ EndsWithColon(KeyLine(n, mode)) <=> n.props.url # NoText
        /\ n.props.url = NoText => Len(renderVisit(n, null, << >>, mode, FALSE)) = 1
        /\ n.props.url # NoText => Len(renderVisit(n, null, << >>, mode, FALSE)) = 2

\* matchesAriaTree rendered a link without children that has a url
TrailingColonWitness ==
  /\ pc = "matchesAriaTree"
  /\ \E n \in RenderedNodes :
       /\ n.children = << >>
       /\ n.props.url # NoText
       /\ EndsWithColon(KeyLine(n, "raw"))

\* C17 as stated: renderAriaTree never emits a key line ending in ':' for a
\* node whose children list is empty
EmptyChildrenNoColon ==
  pc = "matchesAriaTree" =>
    \A n \in RenderedNodes : \A mode \in {"raw", "regex"} :
      n.children = << >> => ~EndsWithColon(KeyLine(n, mode))

(***************************************************************************)
(* The scorer (Spec)                                                       *)
(***************************************************************************)
\* C19 as stated, for a children list none of which is acceptable: with the
\* position bonus and a non-empty children list, every template child for
\* which no unused child scores above 0 subtracts 50 from the total
UnmatchedChildSubtractsFifty ==
  pc = "matchesAriaTree" =>
    \A n \in AllNodes(snapshot) :
      (/\ n.children # << >>
       /\ template.children # << >>
       /\ findBestChildrenMatches(n.children, template.children, TRUE).matchIndexes
            = << >>)
        => findBestChildrenMatches(n.children, template.children, TRUE).score
             = (0 - 50) * Len(template.children)

\* the AriaNodes of a tree in the order traverse visits them, each with its depth
RECURSIVE PreOrderDepth(_, _)
RECURSIVE PreOrderDepthChildren(_, _, _)
PreOrderDepth(node, depth) ==
  IF node.kind = "string" THEN << >>
  ELSE <<[node |-> node, depth |-> depth]>>
       \o PreOrderDepthChildren(node.children, 1, depth + 1)

PreOrderDepthChildren(children, i, depth) ==
  IF i > Len(children) THEN << >>
  ELSE PreOrderDepth(children[i], depth)
       \o PreOrderDepthChildren(children, i + 1, depth)

\* the base score of a node: the children score for a fragment template with
\* several children, the node score otherwise
BaseScore(node, t) ==
  IF t.kind = "role" /\ t.role = "fragment" /\ Len(t.children) > 1
  THEN scoreChildrenMatch(node.children, t.children)
  ELSE scoreNodeMatch(node, t)

TotalScore(e, t) == BaseScore(e.node, t) + 20 * e.depth

\* entry k of the visit order has the maximal total score and is the first
\* that has it
IsFirstMaximum(seq, k, t) ==
  \A m \in 1..Len(seq) :
    /\ TotalScore(seq[m], t) <= TotalScore(seq[k], t)
    /\ m < k => TotalScore(seq[m], t) < TotalScore(seq[k], t)
    /\ BaseScore(seq[m].node, t) = BaseScore(seq[k].node, t)
         => seq[m].depth <= seq[k].depth

BestIsFirstMaximum(seq, best, t) ==
  \E k \in 1..Len(seq) : seq[k].node = best /\ IsFirstMaximum(seq, k, t)

\* C20: findBestStructuralMatch returns a node of the snapshot whose total
\* score, the base score plus 20 times the depth with the root at depth 0,
\* is maximal over the AriaNodes of the tree; of nodes with its base score
\* none is deeper, and of the nodes with the maximal total score it is the
\* first in pre-order
BestStructuralMatchIsFirstMaximum ==
  pc = "matchesAriaTree" =>
    BestIsFirstMaximum(PreOrderDepth(snapshot, 0),
                       findBestStructuralMatch(snapshot, template), template)

\* entry k is the first maximum and an earlier, shallower node has its base
\* score
DeeperAt(seq, k, t) ==
  /\ IsFirstMaximum(seq, k, t)
  /\ \E m \in 1..(k - 1) :
       /\ BaseScore(seq[m].node, t) = BaseScore(seq[k].node, t)
       /\ seq[m].depth < seq[k].depth

\* nothing matched, and the best candidate returned for the diff has the
\* base score of a shallower node visited before it
BestStructuralMatchWitness ==
  /\ pc = "matchesAriaTree"
  /\ matches = << >>
  /\ \E k \in 1..Len(PreOrderDepth(snapshot, 0)) :
       /\ PreOrderDepth(snapshot, 0)[k].node
            = findBestStructuralMatch(snapshot, template)
       /\ DeeperAt(PreOrderDepth(snapshot, 0), k, template)

(***************************************************************************)
(* Properties of the round trip                                            *)
(***************************************************************************)
\* C18: for every snapshot, the regex-mode rendering of the snapshot, parsed
\* as a template, matches that same snapshot: the rendering parses, and
\* matchesAriaTree against the parsed template returns a non-empty matches.
RoundTrip ==
  /\ pc # "parseError"
  /\ (pc = "matchesAriaTree" /\ template = parseAriaSnapshot(received.regex))
       => matches # << >>

(***************************************************************************)
(* Properties of the diff target                                           *)
(***************************************************************************)
\* the children of a list at a set of indexes, in their original order
RECURSIVE InOrderFrom(_, _, _)
InOrderFrom(children, picked, i) ==
  IF i > Len(children) THEN << >>
  ELSE (IF i \in picked THEN <<children[i]>> ELSE << >>)
       \o InOrderFrom(children, picked, i + 1)

\* the indexes the position-less greedy assignment picks among a node's children
PickedIndexes(node, t) ==
  findBestChildrenMatches(node.children, t.children, FALSE).matchIndexes

\* the rendering of a fragment that holds the picked children of a node
PickedRendering(node, t) ==
  renderAriaTree(AriaNode("fragment", << >>,
                          InOrderFrom(node.children, Range(PickedIndexes(node, t)), 1)),
                 "raw", FALSE)

\* diffTarget is the picked children of the best candidate when wrapped holds
\* and the best candidate itself otherwise
DiffTargetOf(best, wrapped) ==
  IF wrapped
  THEN /\ Cardinality(Range(PickedIndexes(best, template)))
            = Len(PickedIndexes(best, template))
       /\ received.diffTarget = PickedRendering(best, template)
  ELSE received.diffTarget = renderAriaTree(best, "raw", FALSE)

\* C21 as stated: when matchesAriaTree finds no match, diffTarget is rendered
\* from a synthetic fragment exactly when the template is a fragment with
\* more than one child; that fragment holds the candidate's children picked by
\* the position-less greedy assignment, each at most once and in their original
\* order; for every other template the best candidate itself is rendered.
DiffTargetFragmentWhenMany ==
  (pc = "matchesAriaTree" /\ matches = << >>) =>
    DiffTargetOf(findBestStructuralMatch(snapshot, template),
                 template.role = "fragment" /\ Len(template.children) > 1)

\* C21 amended: the synthetic fragment is rendered exactly when the template
\* is a fragment, whatever the number of its children; it holds the picked
\* children of the best candidate, each at most once and in their original
\* order; for every other template the best candidate itself is rendered.
DiffTargetFragment ==
  (pc = "matchesAriaTree" /\ matches = << >>) =>
    DiffTargetOf(findBestStructuralMatch(snapshot, template),
                 template.role = "fragment")

\* a mismatch against a fragment of several children where some children of
\* the best candidate are picked and some are not
DiffTargetFragmentWitness ==
  /\ pc = "matchesAriaTree"
  /\ matches = << >>
  /\ template.role = "fragment"
  /\ Len(template.children) > 1
  /\ Len(PickedIndexes(findBestStructuralMatch(snapshot, template), template)) >= 1
  /\ Len(PickedIndexes(findBestStructuralMatch(snapshot, template), template))
       < Len(findBestStructuralMatch(snapshot, template).children)

(***************************************************************************)
(* Properties of the refs                                                  *)
(***************************************************************************)
\* no node of a tree carries a ref
NoRefIn(root) == \A n \in AllNodes(root) : n.ref = undefined

\* the result of a call without forAI: the tree the visit built, the elements
\* map and the snapshot returned
ResultWithoutRefs ==
  /\ (pc \in {"finally", "normalize", "returned"} /\ target.kind = "visited"
      /\ ~target.forAI)
       => (target.v.st.elements = {} /\ NoRefIn(target.v.ariaNode))
  /\ (pc = "returned" /\ ~target.forAI) => NoRefIn(snapshot)

\* a step of a generateAriaTree call without forAI leaves lastRef and every
\* _ariaRef as they were
StepWithoutRefs ==
  (pc \in {"visit", "finally", "normalize"} /\ ~target.forAI)
    => (lastRef' = lastRef /\ ariaRefs' = ariaRefs)

\* C22: a generateAriaTree call without forAI assigns no refs: no node of
\* the result has a ref, the returned elements map is empty, the lastRef
\* counter is unchanged and no element's _ariaRef cache is written.
NoRefsWithoutForAI == []ResultWithoutRefs /\ [][StepWithoutRefs]_vars

\* a call without forAI returned a snapshot of several nodes on a page whose
\* elements carry refs of an earlier call
NoRefsWithoutForAIWitness ==
  /\ pc = "returned"
  /\ ~target.forAI
  /\ lastRef > 0
  /\ Cardinality(AllNodes(snapshot)) > 1
  /\ \E e \in DOMAIN ariaRefs : ariaRefs[e] # null

(***************************************************************************)
(* Properties of the greedy assignment                                     *)
(***************************************************************************)
\* the score of actual child i for template child j
CandidateScore(children, templateChildren, bonus, i, j) ==
  scoreNodeMatch(children[i], templateChildren[j])
  + (IF bonus /\ i = j THEN INDEX_MATCH_BONUS_SCORE ELSE 0)

\* the unused children with the highest score for template child j
TopCandidates(children, templateChildren, bonus, j, used) ==
  { i \in (1..Len(children)) \ used :
      \A k \in (1..Len(children)) \ used :
        CandidateScore(children, templateChildren, bonus, k, j)
          <= CandidateScore(children, templateChildren, bonus, i, j) }

\* the child assigned to template child j: the lowest of the top candidates
\* when their score is above 0, and 0 for none
Assigned(children, templateChildren, bonus, j, top) ==
  IF top = {} THEN 0
  ELSE IF CandidateScore(children, templateChildren, bonus,
                         CHOOSE i \in top : \A k \in top : i <= k, j) > 0
    THEN CHOOSE i \in top : \A k \in top : i <= k
    ELSE 0

\* the children assigned to the template children from j on, in that order
RECURSIVE GreedyFrom(_, _, _, _, _)
GreedyNext(children, templateChildren, bonus, j, used, a) ==
  IF a = 0 THEN GreedyFrom(children, templateChildren, bonus, j + 1, used)
  ELSE <<a>> \o GreedyFrom(children, templateChildren, bonus, j + 1, used \cup {a})

GreedyFrom(children, templateChildren, bonus, j, used) ==
  IF j > Len(templateChildren) THEN << >>
  ELSE GreedyNext(children, templateChildren, bonus, j, used,
                  Assigned(children, templateChildren, bonus, j,
                           TopCandidates(children, templateChildren, bonus, j, used)))

IsGreedy(children, templateChildren, bonus, indexes) ==
  /\ indexes = GreedyFrom(children, templateChildren, bonus, 1, {})
  /\ Cardinality(Range(indexes)) = Len(indexes)

\* C23: findBestChildrenMatches handles the template children in order and
\* assigns each to the not-yet-used actual child with the highest score (node
\* score plus position bonus when enabled), the lowest index among equal
\* scores; no actual child is assigned twice, and a template child stays
\* unassigned only when its best available score is not above 0.
GreedyAssignment ==
  (pc = "matchesAriaTree" /\ matches = << >>) =>
    \A n \in AllNodes(snapshot), bonus \in BOOLEAN :
      IsGreedy(n.children, template.children, bonus,
               findBestChildrenMatches(n.children, template.children, bonus).matchIndexes)

\* the first template child has two top candidates of equal score
TiedAtFirst(children, templateChildren) ==
  /\ Len(templateChildren) >= 2
  /\ Cardinality(TopCandidates(children, templateChildren, FALSE, 1, {})) >= 2

\* a node where the first template child is assigned among tied candidates
\* and a later template child stays unassigned
GreedyAssignmentWitness ==
  /\ pc = "matchesAriaTree"
  /\ matches = << >>
  /\ \E n \in AllNodes(snapshot) :
       /\ TiedAtFirst(n.children, template.children)
       /\ CandidateScore(n.children, template.children, FALSE, 1, 1) > 0
       /\ Len(findBestChildrenMatches(n.children, template.children, FALSE).matchIndexes) = 1
       /\ findBestChildrenMatches(n.children, template.children, FALSE).matchIndexes[1] = 1

(***************************************************************************)
(* Properties of scoreNodeMatch                                            *)
(***************************************************************************)
\* C24 as stated: scoreNodeMatch(node, template) never returns a value below
\* -200, the score returned when the kinds of node and template differ.
ScoreAtLeastNoMatch ==
  pc = "scoreNodeMatch" => verdict.score >= NO_MATCH_SCORE

\* C24 amended: scoreNodeMatch returns -200 when the kinds of node and
\* template differ; a string scored against a text template gets 1000 on a
\* match, -200 against a regex it does not match, and 0 to 400 otherwise; a
\* node scored against a role template never gets less than -50 for every
\* child of the template.
ScoreLowerBound ==
  pc = "scoreNodeMatch" =>
    IF target.kind = "string" /\ template.kind = "text"
    THEN IF matchesTextNode(target.text, template) THEN verdict.score = EXACT_MATCH_SCORE
         ELSE IF template.text.kind = "regex" THEN verdict.score = NO_MATCH_SCORE
         ELSE verdict.score \in 0..STRING_SIMILARITY_MAX_SCORE
    ELSE IF target.kind = "node" /\ template.kind = "role"
      THEN verdict.score >= Len(template.children) * NO_CHILDREN_PENALTY
      ELSE verdict.score = NO_MATCH_SCORE

\* a node scored below -200 against a role template
ScoreLowerBoundWitness ==
  /\ pc = "scoreNodeMatch"
  /\ target.kind = "node"
  /\ template.kind = "role"
  /\ verdict.score < NO_MATCH_SCORE
  /\ verdict.score = Len(template.children) * NO_CHILDREN_PENALTY

(***************************************************************************)
(* Properties of the visit                                                 *)
(***************************************************************************)
\* the text nodes of a DOM, the DOM nodes of a DOM, and the strings of a tree
\* that hold a text
RECURSIVE TextNodeCount(_, _)
TextNodeCount(node, text) ==
  IF node.kind = "text" THEN (IF node.nodeValue = text THEN 1 ELSE 0)
  ELSE IF Len(node.children) = 0 THEN 0
  ELSE TextNodeCount(Head(node.children), text)
       + TextNodeCount([node EXCEPT !.children = Tail(@)], text)

RECURSIVE StringCount(_, _)
StringCount(node, text) ==
  IF node.kind = "string" THEN (IF node.text = text THEN 1 ELSE 0)
  ELSE IF Len(node.children) = 0 THEN 0
  ELSE StringCount(Head(node.children), text)
       + StringCount([node EXCEPT !.children = Tail(@)], text)

\* the AriaNodes below the root of a tree that were built for element e
NodesOf(root, e) ==
  { k \in 2..Len(PreOrder(root)) : PreOrder(root)[k].element = e }

BuiltIn(i, e) == builds[i][e].kind = "node"

\* no two elements carry the same ref, in the builds so far and in the
\* _ariaRef caches, and a ref an element lost is not the ref of a later build
RefsNeverShared ==
  /\ \A i, k \in 1..Len(builds) : \A e, f \in DOMAIN ariaRefs :
       (e # f /\ BuiltIn(i, e) /\ BuiltIn(k, f)) => builds[i][e].ref # builds[k][f].ref
  /\ \A e, f \in DOMAIN ariaRefs :
       (e # f /\ ariaRefs[e] # null /\ ariaRefs[f] # null)
         => ariaRefs[e].ref # ariaRefs[f].ref
  /\ \A i, j, k \in 1..Len(builds) : \A e \in DOMAIN ariaRefs :
       (/\ i < j /\ j < k
        /\ BuiltIn(i, e) /\ BuiltIn(j, e) /\ BuiltIn(k, e)
        /\ builds[i][e].ref # builds[j][e].ref)
       => builds[k][e].ref # builds[i][e].ref

\* a step leaves lastRef or raises it by the number of refs it minted
LastRefCountsMints ==
  /\ lastRef' >= lastRef
  /\ lastRef' - lastRef
       = Cardinality({e \in DOMAIN ariaRefs : ariaRefs'[e] # ariaRefs[e]})

\* C26: across any sequence of generateAriaTree calls (any mix of forAI and
\* refPrefix), lastRef never decreases and grows by exactly one per newly
\* minted ref; no two distinct elements ever carry the same ref string, and
\* a ref that was replaced on an element because its role or name changed is
\* never issued again, even when the element returns to its earlier role and
\* name.
RefsMonotonic == []RefsNeverShared /\ [][LastRefCountsMints]_vars

\* an element built with a name, then with another, then with the first
\* again, under three refs
RefsMonotonicWitness ==
  /\ Len(builds) = 3
  /\ \E e \in DOMAIN ariaRefs :
       /\ BuiltIn(1, e) /\ BuiltIn(2, e) /\ BuiltIn(3, e)
       /\ builds[1][e].role = builds[3][e].role
       /\ builds[1][e].name = builds[3][e].name
       /\ builds[1][e].name # builds[2][e].name
       /\ builds[1][e].ref # builds[2][e].ref
       /\ builds[2][e].ref # builds[3][e].ref
       /\ builds[1][e].ref # builds[3][e].ref

(***************************************************************************)
(* C27: with collectAll false, matchesNodeDeep returns at most one node:   *)
(* the one recorded for the first hit in pre-order from the root, which is *)
(* the AriaNode that matches, or the parent of the string child that       *)
(* matches; the result is empty exactly when nothing in the tree matches,  *)
(* and nothing after the first hit is recorded.                            *)
(***************************************************************************)
\* the nodes and strings of a tree in the order visit reaches them, each with
\* the parent visit is given
RECURSIVE VisitOrder(_, _)
RECURSIVE VisitOrderChildren(_, _, _)
VisitOrder(node, parent) ==
  <<[node |-> node, parent |-> parent]>>
  \o (IF node.kind = "string" THEN << >>
      ELSE VisitOrderChildren(node.children, 1, node))

VisitOrderChildren(children, i, node) ==
  IF i > Len(children) THEN << >>
  ELSE VisitOrder(children[i], node) \o VisitOrderChildren(children, i + 1, node)

Hits(order, t) == {k \in 1..Len(order) : matchesNode(order[k].node, t, FALSE)}

Recorded(visited) ==
  IF visited.node.kind = "string" THEN visited.parent ELSE visited.node

FirstHit(order, t) ==
  Recorded(order[CHOOSE k \in Hits(order, t) : \A j \in Hits(order, t) : k <= j])

FirstHitOnly ==
  pc = "matchesAriaTree" =>
    /\ Len(matches) <= 1
    /\ (matches = << >>) <=> (Hits(VisitOrder(snapshot, null), template) = {})
    /\ matches # << >> => matches[1] = FirstHit(VisitOrder(snapshot, null), template)

\* two hits that would record different nodes, and only the first is returned
FirstHitOnlyWitness ==
  /\ pc = "matchesAriaTree"
  /\ Len(matches) = 1
  /\ \E k \in Hits(VisitOrder(snapshot, null), template) :
       Recorded(VisitOrder(snapshot, null)[k]) # matches[1]
  /\ \E k \in Hits(VisitOrder(snapshot, null), template) :
       VisitOrder(snapshot, null)[k].node.kind = "string"

(***************************************************************************)
(* C28: when a node fails a role template because the template's regex     *)
(* name or regex url does not match it, the failures the line-tracking     *)
(* matchesNode returns include one for the template's line with            *)
(* isFromTemplateRegex true.                                               *)
(***************************************************************************)
RegexMismatch(text, t) == t.kind = "regex" /\ ~matchesTextTracked(text, t).match

RegexFailureTagged ==
  (/\ pc = "matchesNodeTracked"
   /\ \/ RegexMismatch(target.name, template.name)
      \/ RegexMismatch(target.props.url, template.props.url))
  => \E k \in 1..Len(verdict.failures) :
       verdict.failures[k] = MatchFailure(template, TRUE)

(***************************************************************************)
(* C29: the line-tracking matchesNode returns no failure exactly when the  *)
(* boolean matchesNode returns true, for the same node, template and       *)
(* isDeepEqual.                                                            *)
(***************************************************************************)
TrackedAgreesWithBoolean ==
  pc = "matchesNodeTracked" =>
    ((Len(verdict.failures) = 0) <=> matchesNode(target, template, verdict.isDeepEqual))

(***************************************************************************)
(* C30: in the Workbench isInspecting is true only while the selected      *)
(* properties tab is 'inspector': a step that ends on another tab ends     *)
(* with isInspecting false, and a step that turns isInspecting on from off *)
(* ends on the inspector tab.                                              *)
(***************************************************************************)
InspectingOnInspectorTab == isInspecting => selectedPropertiesTab = "inspector"

OtherTabClears ==
  (selectedPropertiesTab' # selectedPropertiesTab
   /\ selectedPropertiesTab' # "inspector") => ~isInspecting'

TurningOnSelectsInspector ==
  (~isInspecting /\ isInspecting') => selectedPropertiesTab' = "inspector"

InspectingOnlyOnInspectorTab ==
  /\ []InspectingOnInspectorTab
  /\ [][OtherTabClears /\ TurningOnSelectsInspector]_vars

\* inspection turned on again after an attachment was revealed
InspectingOnlyOnInspectorTabWitness ==
  /\ isInspecting
  /\ selectedPropertiesTab = "inspector"
  /\ revealedAttachment # NoAttachment
  /\ highlightedElement.lastEdited # "none"

====
